---- MODULE Spec2Model ----
(***************************************************************************)
(* BookReader: the library store (stores/libraryStore.ts), the reader      *)
(* store (stores/readerStore.ts), the ReaderView session cleanup and the   *)
(* EpubRenderer load, relocation and debounce logic, and the auto-hide of  *)
(* the ReaderView chrome.                                                  *)
(*                                                                         *)
(* Specifications:                                                         *)
(*   SpecLib      - the library store's highlight calls, books coming and  *)
(*                  going                                                  *)
(*   SpecBooks    - the library store's book-record calls                  *)
(*   Spec         - one reader (ReaderView + EpubRenderer) under mount,    *)
(*                  unmount, book switch, asynchronous load steps and a    *)
(*                  wall clock                                             *)
(*   SpecSim      - as Spec, under a simulated clock that starts at 0      *)
(*   SpecNav      - the reader with relocation events                      *)
(*   SpecDebounce - the reader with resize events, layout-setting changes  *)
(*                  and timers                                             *)
(*   SpecLayout   - the reader with layout-setting changes, where load     *)
(*                  steps and timer firings are weakly fair                *)
(*   SpecLegacy   - the reader with the earlier EpubRenderer of            *)
(*                  components/reader/EpubRenderer.tsx                     *)
(*   SpecShelf    - removeBook with the bookmarks, highlights and          *)
(*                  collection memberships of two books                    *)
(*   SpecRecords  - updateBook, updateReadingProgress, updateReadingTime,  *)
(*                  setBookStatus and removeBook on two book records       *)
(*   SpecGoTo     - the reader with goToLocation and goToPercentage        *)
(*   SpecBuilds   - a Ready reader with the index builds in flight         *)
(*   SpecChrome   - a Ready reader with pointer, click, key and page-turn  *)
(*                  input, the auto-hide timer and the clock               *)
(*   SpecToc      - a Ready reader over the tables of contents a book can  *)
(*                  have, with relocation events                           *)
(*   SpecOverlay  - the highlight decorations of a Ready reader under the  *)
(*                  library store's highlight calls and the selection menu *)
(*   SpecRedisplay - the same decorations under content-rendered events    *)
(*   SpecMarks    - the library store's bookmark calls                     *)
(*   SpecCollections - the library store's collection membership calls     *)
(*   SpecPages    - as SpecBuilds, with relocations that reach the end of  *)
(*                  the book                                               *)
(*   SpecStyle    - a Ready reader under the settings store's calls, the   *)
(*                  style effects and content-rendered events              *)
(***************************************************************************)
EXTENDS Integers, Sequences, FiniteSets, TLC

\* ------------------------------------------------------------------ bounds
MaxIds == 3
MaxTicks == 2
MaxLoads == 2
MaxTimers == 2
MaxReadingTime == 2
MaxToc == 2

\* ------------------------------------------------------------ value domains
Null == "null"
\* null in a field that otherwise holds a number
NullNum == 0 - 1
BookIds == {"b1", "b2"}
CollectionIds == {"c1", "c2"}
FilePaths == {"f1", "f2"}
Locs == {"cfiA", "cfiB"}
Colors == {"yellow", "green"}
Statuses == {"want-to-read", "reading", "finished"}
Progresses == {0, 40}

VARIABLES
    books,          \* library store: id -> Book (only the ids in the library)
    highlights,     \* library store: array of Highlight
    nextId,         \* the next fresh highlight id (uuidv4 never repeats)
    bookmarks,      \* library store: array of Bookmark
    collections,    \* library store: array of Collection
    lastOp,         \* history: the most recent library-store call
    now,            \* Date.now(), in milliseconds
    readerStore,    \* reader store: the fields of ReaderState the model follows
    route,          \* ReaderView: the bookId route parameter, Null when unmounted
    rendererUp,     \* EpubRenderer is mounted
    inst,           \* EpubRenderer instance number (refs belong to an instance)
    epubRef,        \* epubRef.current: the load whose epub it holds, or NullNum
    renditionRef,   \* renditionRef.current: the load whose rendition it holds
    loads,          \* every initEpub run so far, with its closure (isActive)
    due,            \* history: seconds each book is owed by ended sessions
    sessionBegan,   \* history: when the session in progress began, or NullNum
    sessionBook,    \* history: the book shown when the session in progress began
    cleanups,       \* history: session-end cleanups since the last startSession
    staleWrites,    \* history: shared-state writes made by a deactivated load
    timers,         \* the timers setTimeout has pending
    layoutTimeout,  \* the timeout variable of the current layout-effect run
    burst,          \* history: per debounced concern, the current burst
    builds,         \* the index rebuilds in flight that a timer started, or
                    \* Unfollowed in the specifications that leave them out
    unbuilt,        \* history: a layout setting changed in this session and
                    \* no index build has started since
    toast,          \* the last toast.error message, Null when none was shown
    hideTimeout,    \* ReaderView: when the pending auto-hide timer is due,
                    \* NullNum when none is pending
    lastInput,      \* history: the time of the most recent user interaction
    overlay,        \* the highlight subscriber of the EpubRenderer that has
                    \* one: its previous snapshot, and the decorations of
                    \* the rendition in renditionRef.current
    settings,       \* settings store: the fields of settings.reader the
                    \* model follows
    dataTheme,      \* the data-theme attribute of document.documentElement
    styled          \* the render surface of a Ready reader: the settings
                    \* its content is styled from, and the settings the
                    \* style effect last ran with

shelfVars == <<bookmarks, collections>>
libVars == <<books, highlights, nextId, shelfVars>>
viewVars == <<route, rendererUp, inst, epubRef, renditionRef, loads>>
ghostVars == <<due, sessionBegan, sessionBook, cleanups, staleWrites>>
debVars == <<timers, layoutTimeout, burst, builds, unbuilt>>
chromeVars == <<toast, hideTimeout, lastInput>>
styleVars == <<settings, dataTheme, styled>>
readerRest ==
    <<now, readerStore, viewVars, ghostVars, debVars, chromeVars, styleVars>>
readerVars == <<readerRest, overlay>>
vars == <<libVars, lastOp, readerVars>>

NoOp == [op |-> "none"]

\* ============================================================ library store

\* addBook: the fields a new Book starts with (libraryStore.ts 51-64)
NewBook(filePath) ==
    [title |-> "t0", filePath |-> filePath, currentLocation |-> Null,
     progress |-> 0, lastOpened |-> NullNum, readingTime |-> 0,
     status |-> "want-to-read", collectionIds |-> <<>>]

\* a mutation of updateReadingProgress: every progress update sets "reading"
UpdateReadingProgressAlwaysReading(book, location, progress) ==
    [book EXCEPT !.currentLocation = location, !.progress = progress,
                 !.lastOpened = now, !.status = "reading"]

\* updateReadingProgress: the new record of the matching book
UpdateReadingProgressOf(book, location, progress) ==
    [book EXCEPT !.currentLocation = location, !.progress = progress,
                 !.lastOpened = now,
                 !.status = IF book.status = "want-to-read" THEN "reading"
                            ELSE book.status]

\* updateReadingProgress: books.map, the matching book replaced
updateReadingProgress(bs, id, location, progress) ==
    [b \in DOMAIN bs |->
        IF b = id THEN UpdateReadingProgressOf(bs[b], location, progress)
        ELSE bs[b]]

\* updateReadingTime: readingTime + seconds on the matching book
updateReadingTime(bs, id, seconds) ==
    [b \in DOMAIN bs |->
        IF b = id THEN [bs[b] EXCEPT !.readingTime = @ + seconds] ELSE bs[b]]

\* a mutation of setBookStatus: the status of every book
setBookStatusOfAll(bs, id, status) ==
    [b \in DOMAIN bs |-> [bs[b] EXCEPT !.status = status]]

\* setBookStatus: the status of the matching book
setBookStatus(bs, id, status) ==
    [b \in DOMAIN bs |->
        IF b = id THEN [bs[b] EXCEPT !.status = status] ELSE bs[b]]

\* { ...h, ...updates }: the fields of updates replace those of h
Merge(h, updates) ==
    [f \in DOMAIN h |-> IF f \in DOMAIN updates THEN updates[f] ELSE h[f]]

\* a mutation of updateBook: the patch replaces the whole record
updateBookOverwrite(bs, id, updates) ==
    [b \in DOMAIN bs |->
        IF b = id THEN Merge(NewBook(bs[b].filePath), updates) ELSE bs[b]]

\* updateBook: { ...book, ...updates } on the matching book
updateBook(bs, id, updates) ==
    [b \in DOMAIN bs |-> IF b = id THEN Merge(bs[b], updates) ELSE bs[b]]

\* the partial patches updateBook is called with
BookUpdates ==
    {[title |-> "t1"],
     [status |-> "finished"],
     [currentLocation |-> "cfiB", progress |-> 40]}

\* a mutation of addHighlight: the new highlight is appended without removing
\* the highlights already at that location
AddHighlightStacking(hs, id, bookId, startLocation, color) ==
    Append(hs, [id |-> id, bookId |-> bookId,
                startLocation |-> startLocation, color |-> color])

\* addHighlight: drop every highlight of the book at that start location,
\* then append the new one
AddHighlightTo(hs, id, bookId, startLocation, color) ==
    LET existing == {hs[i].id : i \in {j \in 1..Len(hs) :
                        /\ hs[j].bookId = bookId
                        /\ hs[j].startLocation = startLocation}}
        keep(h) == h.id \notin existing
    IN  Append(SelectSeq(hs, keep),
               [id |-> id, bookId |-> bookId,
                startLocation |-> startLocation, color |-> color])

\* updateHighlight: merge the updates into the highlight with that id
UpdateHighlightIn(hs, id, updates) ==
    [i \in 1..Len(hs) |-> IF hs[i].id = id THEN Merge(hs[i], updates) ELSE hs[i]]

\* removeHighlight
RemoveHighlightFrom(hs, id) ==
    LET keep(h) == h.id # id IN SelectSeq(hs, keep)

\* clearAllHighlights, and the highlights line of removeBook
ClearHighlightsOf(hs, bookId) ==
    LET keep(h) == h.bookId # bookId IN SelectSeq(hs, keep)

\* array.includes(x)
Includes(arr, x) == \E i \in 1..Len(arr) : arr[i] = x

\* array.filter((y) => y !== x)
Without(arr, x) == LET keep(y) == y # x IN SelectSeq(arr, keep)

\* a mutation of the bookmarks line of removeBook: every bookmark is kept
ClearBookmarksOfNone(bms, bookId) == bms

\* the bookmarks line of removeBook
ClearBookmarksOf(bms, bookId) ==
    LET keep(b) == b.bookId # bookId IN SelectSeq(bms, keep)

\* the collections line of removeBook: the id leaves every bookIds
ClearMembershipsOf(cols, bookId) ==
    [i \in 1..Len(cols) |->
        [cols[i] EXCEPT !.bookIds = Without(@, bookId)]]

\* ---------------------------------------------- the highlight subscriber
\* no decoration at any address
NoMarks == [l \in Locs |-> Null]

\* no EpubRenderer with a highlight subscriber is mounted
NoSelection == [cfiRange |-> Null, existing |-> NullNum]
NoOverlay ==
    [subscribed |-> FALSE, previous |-> <<>>, marks |-> NoMarks,
     selection |-> NoSelection]

\* highlights.filter((h) => h.bookId === bookId)
OfBook(hs, bookId) == LET mine(h) == h.bookId = bookId IN SelectSeq(hs, mine)

\* the first loop of the subscriber: annotations.remove(startLocation) for
\* every previous highlight whose id is gone
RemoveDeleted(marks, prev, next) ==
    [l \in Locs |->
        IF \E i \in 1..Len(prev) :
              /\ prev[i].startLocation = l
              /\ \A j \in 1..Len(next) : next[j].id # prev[i].id
        THEN Null ELSE marks[l]]

\* !prev || prev.startLocation !== h.startLocation || prev.color !== h.color
Changed(prev, h) ==
    ~\E i \in 1..Len(prev) :
        /\ prev[i].id = h.id
        /\ prev[i].startLocation = h.startLocation
        /\ prev[i].color = h.color

\* the second loop of the subscriber, in array order: for a new or changed
\* highlight, annotations.remove and annotations.add at its startLocation
RECURSIVE AddChanged(_, _, _)
AddChanged(marks, prev, next) ==
    IF next = <<>> THEN marks
    ELSE AddChanged(
           IF Changed(prev, Head(next))
           THEN [marks EXCEPT ![Head(next).startLocation] = Head(next).color]
           ELSE marks,
           prev, Tail(next))

\* the subscriber called with the store's highlights hs: without a rendition
\* it only takes the snapshot
Subscriber(o, hs) ==
    IF ~o.subscribed THEN o
    ELSE LET next == OfBook(hs, route)
         IN  IF renditionRef = NullNum THEN [o EXCEPT !.previous = next]
             ELSE [o EXCEPT
                     !.previous = next,
                     !.marks = AddChanged(
                                 RemoveDeleted(o.marks, o.previous, next),
                                 o.previous, next)]

\* the Partial<Highlight> patches the model draws
HighlightUpdates ==
    {[color |-> c] : c \in Colors} \cup {[startLocation |-> l] : l \in Locs}

AddBook(id, filePath) ==
    /\ id \notin DOMAIN books
    /\ books' = [b \in DOMAIN books \cup {id} |->
                    IF b = id THEN NewBook(filePath) ELSE books[b]]
    /\ lastOp' = [op |-> "addBook"]
    /\ UNCHANGED <<highlights, nextId, shelfVars, readerVars>>

RemoveBook(id) ==
    /\ books' = [b \in DOMAIN books \ {id} |-> books[b]]
    /\ bookmarks' = ClearBookmarksOf(bookmarks, id)
    /\ highlights' = ClearHighlightsOf(highlights, id)
    /\ collections' = ClearMembershipsOf(collections, id)
    /\ lastOp' = [op |-> "removeBook", id |-> id]
    /\ overlay' = Subscriber(overlay, highlights')
    /\ UNCHANGED <<nextId, readerRest>>

UpdateReadingProgress(id, location, progress) ==
    /\ books' = updateReadingProgress(books, id, location, progress)
    /\ lastOp' = [op |-> "updateReadingProgress", id |-> id,
                   was |-> IF id \in DOMAIN books THEN books[id].status
                           ELSE "absent"]
    /\ UNCHANGED <<highlights, nextId, shelfVars, readerVars>>

SetBookStatus(id, status) ==
    /\ books' = setBookStatus(books, id, status)
    /\ lastOp' = [op |-> "setBookStatus", id |-> id]
    /\ UNCHANGED <<highlights, nextId, shelfVars, readerVars>>

UpdateBook(id, updates) ==
    /\ books' = updateBook(books, id, updates)
    /\ lastOp' = [op |-> "updateBook", id |-> id]
    /\ UNCHANGED <<highlights, nextId, shelfVars, readerVars>>

\* the accumulated seconds are kept within MaxReadingTime
UpdateReadingTime(id, seconds) ==
    /\ id \in DOMAIN books => books[id].readingTime + seconds <= MaxReadingTime
    /\ books' = updateReadingTime(books, id, seconds)
    /\ lastOp' = [op |-> "updateReadingTime", id |-> id]
    /\ UNCHANGED <<highlights, nextId, shelfVars, readerVars>>

\* createCollection: the new Collection; id is the fresh uuid
NewCollection(id, cols) ==
    [id |-> id, bookIds |-> <<>>, sortOrder |-> Len(cols)]

\* a mutation of the membership update: the id is appended without the
\* includes test
AddMemberAgain(arr, x) == Append(arr, x)

\* arr.includes(x) ? arr : [...arr, x]
AddMember(arr, x) == IF Includes(arr, x) THEN arr ELSE Append(arr, x)

\* the book's collectionIds includes the collection, or the collection's
\* bookIds the book
IsMember(bs, cols, bookId, collectionId) ==
    \/ /\ bookId \in DOMAIN bs
       /\ Includes(bs[bookId].collectionIds, collectionId)
    \/ \E i \in 1..Len(cols) :
          cols[i].id = collectionId /\ Includes(cols[i].bookIds, bookId)

AddBookToCollection(bookId, collectionId) ==
    /\ books' = [b \in DOMAIN books |->
                    IF b = bookId
                    THEN [books[b] EXCEPT
                            !.collectionIds = AddMember(@, collectionId)]
                    ELSE books[b]]
    /\ collections' = [i \in 1..Len(collections) |->
                          IF collections[i].id = collectionId
                          THEN [collections[i] EXCEPT
                                  !.bookIds = AddMember(@, bookId)]
                          ELSE collections[i]]
    /\ lastOp' = [op |-> "addBookToCollection", bookId |-> bookId,
                   collectionId |-> collectionId,
                   was |-> IsMember(books, collections, bookId, collectionId)]
    /\ UNCHANGED <<highlights, nextId, bookmarks, readerVars>>

\* deleteCollection: the collection goes, and its id leaves every book
DeleteCollection(id) ==
    /\ collections' = LET keep(col) == col.id # id
                      IN  SelectSeq(collections, keep)
    /\ books' = [b \in DOMAIN books |->
                    [books[b] EXCEPT !.collectionIds = Without(@, id)]]
    /\ lastOp' = [op |-> "deleteCollection", id |-> id]
    /\ UNCHANGED <<highlights, nextId, bookmarks, readerVars>>

RemoveBookFromCollection(bookId, collectionId) ==
    /\ books' = [b \in DOMAIN books |->
                    IF b = bookId
                    THEN [books[b] EXCEPT
                            !.collectionIds = Without(@, collectionId)]
                    ELSE books[b]]
    /\ collections' = [i \in 1..Len(collections) |->
                          IF collections[i].id = collectionId
                          THEN [collections[i] EXCEPT
                                  !.bookIds = Without(@, bookId)]
                          ELSE collections[i]]
    /\ lastOp' = [op |-> "removeBookFromCollection"]
    /\ UNCHANGED <<highlights, nextId, bookmarks, readerVars>>

\* a mutation of addBookmark: a bookmark of the book already at that
\* location is replaced
AddBookmarkUnique(bms, id, bookId, location) ==
    LET keep(b) == ~(b.bookId = bookId /\ b.location = location)
    IN  Append(SelectSeq(bms, keep),
               [id |-> id, bookId |-> bookId, location |-> location,
                note |-> Null])

\* addBookmark: the new bookmark is appended
AddBookmarkTo(bms, id, bookId, location) ==
    Append(bms, [id |-> id, bookId |-> bookId, location |-> location,
                 note |-> Null])

\* getBookBookmarks
getBookBookmarks(bms, bookId) ==
    LET mine(b) == b.bookId = bookId IN SelectSeq(bms, mine)

\* the Partial<Bookmark> patches the model draws
BookmarkUpdates == {[note |-> "n1"], [location |-> "cfiB"]}

\* addBookmark; the id is the fresh uuid
AddBookmark(bookId, location) ==
    /\ nextId <= MaxIds
    /\ bookmarks' = AddBookmarkTo(bookmarks, nextId, bookId, location)
    /\ nextId' = nextId + 1
    /\ lastOp' = [op |-> "addBookmark", id |-> nextId, bookId |-> bookId,
                   location |-> location]
    /\ UNCHANGED <<books, highlights, collections, readerVars>>

UpdateBookmark(id, updates) ==
    /\ bookmarks' = [i \in 1..Len(bookmarks) |->
                        IF bookmarks[i].id = id
                        THEN Merge(bookmarks[i], updates) ELSE bookmarks[i]]
    /\ lastOp' = [op |-> "updateBookmark", id |-> id]
    /\ UNCHANGED <<books, highlights, nextId, collections, readerVars>>

RemoveBookmark(id) ==
    /\ bookmarks' = LET keep(b) == b.id # id IN SelectSeq(bookmarks, keep)
    /\ lastOp' = [op |-> "removeBookmark", id |-> id]
    /\ UNCHANGED <<books, highlights, nextId, collections, readerVars>>

AddHighlight(bookId, startLocation, color) ==
    /\ nextId <= MaxIds
    /\ highlights' = AddHighlightTo(highlights, nextId, bookId, startLocation, color)
    /\ nextId' = nextId + 1
    /\ lastOp' = [op |-> "addHighlight", bookId |-> bookId,
                   startLocation |-> startLocation, color |-> color,
                   replaced |-> {highlights[i].color : i \in
                                   {j \in 1..Len(highlights) :
                                      /\ highlights[j].bookId = bookId
                                      /\ highlights[j].startLocation = startLocation}}]
    /\ overlay' = Subscriber(overlay, highlights')
    /\ UNCHANGED <<books, shelfVars, readerRest>>

UpdateHighlight(id, updates) ==
    /\ highlights' = UpdateHighlightIn(highlights, id, updates)
    /\ lastOp' = [op |-> "updateHighlight"]
    /\ overlay' = Subscriber(overlay, highlights')
    /\ UNCHANGED <<books, nextId, shelfVars, readerRest>>

RemoveHighlight(id) ==
    /\ highlights' = RemoveHighlightFrom(highlights, id)
    /\ lastOp' = [op |-> "removeHighlight"]
    /\ overlay' = Subscriber(overlay, highlights')
    /\ UNCHANGED <<books, nextId, shelfVars, readerRest>>

ClearAllHighlights(bookId) ==
    /\ highlights' = ClearHighlightsOf(highlights, bookId)
    /\ lastOp' = [op |-> "clearAllHighlights"]
    /\ overlay' = Subscriber(overlay, highlights')
    /\ UNCHANGED <<books, nextId, shelfVars, readerRest>>

\* ============================================================= reader store

SecondMs == 1000

\* initialState (the fields the model follows)
initialState ==
    [sessionStartTime |-> NullNum, isLoading |-> FALSE, error |-> Null,
     currentLocation |-> Null, currentPage |-> 0, totalPages |-> 0,
     progress |-> 0, totalLocations |-> 0,
     isUIVisible |-> TRUE, isTocOpen |-> FALSE, isSettingsOpen |-> FALSE,
     isBookmarksOpen |-> FALSE, currentChapter |-> Null]

\* JavaScript's !v for a value that is null or a number
Falsy(v) == v = NullNum \/ v = 0

\* a mutation of endSession: the guard for "no session" is missing, and the
\* subtraction reads null as 0
EndSessionNoGuard(sessionStartTime, t) ==
    [duration |-> (t - (IF sessionStartTime = NullNum THEN 0 ELSE sessionStartTime))
                    \div SecondMs,
     sessionStartTime |-> NullNum]

\* endSession: the duration it returns and the sessionStartTime it leaves
EndSession(sessionStartTime, t) ==
    IF Falsy(sessionStartTime)
    THEN [duration |-> 0, sessionStartTime |-> sessionStartTime]
    ELSE [duration |-> (t - sessionStartTime) \div SecondMs,
          sessionStartTime |-> NullNum]

\* ReaderView's unmount cleanup, the library side: endSession(), then
\* updateReadingTime(bookId, duration) if duration > 0
CleanupBooks(bs, bookId, sessionStartTime, t) ==
    LET duration == EndSession(sessionStartTime, t).duration
    IN  IF duration > 0 THEN updateReadingTime(bs, bookId, duration) ELSE bs

\* ============================================ the epub library, as a black box

\* locations.length() of a generated index
TotalLocs == 2

\* the address of the end of the book
EndLoc == "cfiEnd"

\* Math.round(locations.percentageFromCfi(cfi) * 100) on a generated index
PercentOf(cfi) ==
    IF cfi = "cfiA" THEN 0 ELSE IF cfi = EndLoc THEN 100 ELSE 40

Least(a, b) == IF a <= b THEN a ELSE b
Most(a, b) == IF a >= b THEN a ELSE b

\* Math.max(1, Math.round((percentage || 0) * totalLocs)), the percentage
\* in hundredths
PageFromPercentage(pct, totalLocs) ==
    Most(1, (pct * totalLocs + 50) \div 100)

\* locations.locationFromCfi(cfi) where the library has it: the index of the
\* address among the totalLocs locations, from 0
LocationFromCfi(cfi, totalLocs) == (PercentOf(cfi) * (totalLocs - 1)) \div 100

\* the page a rebuild computes. numeric: typeof locationIndex === 'number';
\* the interface the repository declares for the library has no
\* locationFromCfi, and the optional call gives undefined without it
PageAfterRebuild(cfi, totalLocs, numeric) ==
    IF numeric
    THEN Least(totalLocs, Most(1, LocationFromCfi(cfi, totalLocs) + 1))
    ELSE Most(1, (PercentOf(cfi) * totalLocs) \div 100 + 1)

\* location.start.displayed of an address: its page within its section and
\* the section's pages
Displayed(cfi) ==
    IF cfi = "cfiA" THEN [page |-> 1, total |-> 1]
    ELSE [page |-> 2, total |-> 2]

\* =========================================================== settings store

Themes == {"light", "sepia", "dark"}
TextAligns == {"left", "justify"}

\* defaultReaderSettings (the fields the model follows)
defaultReaderSettings == [theme |-> "light", textAlign |-> "left"]

\* ReaderView's recommendedSettings (the same fields)
recommendedSettings == [theme |-> "sepia", textAlign |-> "justify"]

\* the patches updateReaderSettings is called with
SettingsUpdates ==
    {[theme |-> t] : t \in Themes}
      \cup {[textAlign |-> a] : a \in TextAligns}
      \cup {recommendedSettings}

\* nothing rendered
NoStyle == [config |-> Null, applied |-> Null]

\* setTheme: the state, then the attribute
SetTheme(theme) ==
    /\ settings' = [settings EXCEPT !.theme = theme]
    /\ dataTheme' = theme
    /\ UNCHANGED <<libVars, lastOp, overlay, now, readerStore, viewVars,
                   ghostVars, debVars, chromeVars, styled>>

\* setTextAlign, as the other setters of one reader field: the state only
SetTextAlign(textAlign) ==
    /\ settings' = [settings EXCEPT !.textAlign = textAlign]
    /\ UNCHANGED <<libVars, lastOp, overlay, now, readerStore, viewVars,
                   ghostVars, debVars, chromeVars, dataTheme, styled>>

\* updateReaderSettings: { ...reader, ...updates }, the state only
UpdateReaderSettings(updates) ==
    /\ settings' = Merge(settings, updates)
    /\ UNCHANGED <<libVars, lastOp, overlay, now, readerStore, viewVars,
                   ghostVars, debVars, chromeVars, dataTheme, styled>>

\* resetToDefaults: the state, then the attribute
ResetToDefaults ==
    /\ settings' = defaultReaderSettings
    /\ dataTheme' = defaultReaderSettings.theme
    /\ UNCHANGED <<libVars, lastOp, overlay, now, readerStore, viewVars,
                   ghostVars, debVars, chromeVars, styled>>

\* App's effect on settings.reader.theme, run after the render that follows
\* a change of the theme; a run that writes the value the attribute has
\* already is left out
AppThemeEffect ==
    /\ dataTheme # settings.theme
    /\ dataTheme' = settings.theme
    /\ UNCHANGED <<libVars, lastOp, overlay, now, readerStore, viewVars,
                   ghostVars, debVars, chromeVars, settings, styled>>

\* ================================================== ReaderView, EpubRenderer

\* an initEpub run and the closure of the effect run that started it
NewLoad(bookId, instance) ==
    [inst |-> instance, pc |-> "read", active |-> TRUE, destroyed |-> FALSE,
     ready |-> FALSE, built |-> FALSE, indexDone |-> FALSE,
     regenerateTimeout |-> NullNum,
     at |-> IF books[bookId].currentLocation = Null THEN "cfiA"
            ELSE books[bookId].currentLocation,
     nav |-> <<>>, styles |-> settings]

\* a run that has returned and whose epub is destroyed keeps no state
DeadLoad ==
    [inst |-> 0, pc |-> "dead", active |-> FALSE, destroyed |-> TRUE,
     ready |-> FALSE, built |-> FALSE, indexDone |-> FALSE,
     regenerateTimeout |-> NullNum, at |-> "cfiA", nav |-> <<>>,
     styles |-> defaultReaderSettings]

Settle(ls) ==
    [i \in 1..Len(ls) |->
        IF ls[i].pc = "dead" \/ (ls[i].pc = "done" /\ ~ls[i].active)
        THEN DeadLoad ELSE ls[i]]

\* the init effect's cleanup, on the closures: isActive = false, and
\* epubRef.current.destroy() if epubRef.current is set
CleanupLoads(ls) ==
    [i \in 1..Len(ls) |->
        [ls[i] EXCEPT !.active = IF i = Len(ls) THEN FALSE ELSE @,
                      !.destroyed = IF i = epubRef THEN TRUE ELSE @]]

\* the rebuilds in flight once epubRef.current is e: a rebuild of an epub
\* that epubRef.current has let go of keeps its kind only
StaleBuilds(bs, e) ==
    {[kind |-> b.kind, epub |-> IF b.epub = e THEN e ELSE NullNum] : b \in bs}

\* clearTimeout(id) for each of ids
ClearTimeouts(ts, ids) == {t \in ts : t.id \notin ids}

\* the timers the init effect's cleanup clears: its regenerateTimeout
InitCleanupTimers == {loads[Len(loads)].regenerateTimeout}

\* the timers cleared when EpubRenderer unmounts: the init effect's and the
\* layout effect's
UnmountTimers == InitCleanupTimers \cup {layoutTimeout}

\* history: the session in progress, if any, ends here and its whole seconds
\* are owed to the book it began on
DueAfterEnd ==
    IF sessionBegan = NullNum THEN due
    ELSE [due EXCEPT ![sessionBook] = @ + (now - sessionBegan) \div SecondMs]

\* ReaderView's unmount cleanup: endSession, updateReadingTime; reset() is
\* the readerStore' = initialState of the actions that use it
ReaderCleanup ==
    /\ books' = CleanupBooks(books, route, readerStore.sessionStartTime, now)
    /\ due' = DueAfterEnd
    /\ sessionBegan' = NullNum
    /\ sessionBook' = Null
    /\ cleanups' = IF cleanups < 2 THEN cleanups + 1 ELSE cleanups

\* UI_CONSTANTS.UI_HIDE_TIMEOUT_MS
HideDelay == 3000

\* one of the three panels is open
PanelOpen(store) ==
    store.isTocOpen \/ store.isSettingsOpen \/ store.isBookmarksOpen

\* what resetHideTimeout depends on
HideDeps(store) ==
    <<store.isUIVisible, store.isTocOpen, store.isSettingsOpen,
      store.isBookmarksOpen>>

\* a mutation of resetHideTimeout: an open panel does not hold the timer back
resetHideTimeoutUnderPanel(store, t) ==
    IF store.isUIVisible THEN t + HideDelay ELSE NullNum

\* resetHideTimeout at time t: the pending timer is cleared, and a new one is
\* set when the chrome is visible and no panel is open
resetHideTimeout(store, t) ==
    IF store.isUIVisible /\ ~PanelOpen(store) THEN t + HideDelay ELSE NullNum

\* the auto-hide effect after a render in which the store went from old to
\* new: it runs again (cleanup, then resetHideTimeout) when its dependency
\* changed
HideEffect(old, new, timeout, t) ==
    IF HideDeps(new) = HideDeps(old) THEN timeout
    ELSE resetHideTimeout(new, t)

\* initEpub up to its first await: setLoading(true), setError(null)
StartLoad(store) == [store EXCEPT !.isLoading = TRUE, !.error = Null]

Mount(b) ==
    /\ route = Null
    /\ b \in DOMAIN books
    /\ Len(loads) < MaxLoads
    /\ route' = b
    /\ rendererUp' = TRUE
    /\ inst' = inst + 1
    /\ epubRef' = NullNum
    /\ renditionRef' = NullNum
    /\ loads' = Append(loads, NewLoad(b, inst + 1))
    /\ readerStore' = StartLoad(readerStore)
    /\ hideTimeout' = resetHideTimeout(readerStore', now)
    /\ UNCHANGED <<libVars, lastOp, overlay, styleVars, now, ghostVars, debVars, toast, lastInput>>

Unmount ==
    /\ route # Null
    /\ ReaderCleanup
    /\ readerStore' = initialState
    /\ loads' = IF rendererUp THEN Settle(CleanupLoads(loads)) ELSE loads
    /\ route' = Null
    /\ rendererUp' = FALSE
    /\ epubRef' = NullNum
    /\ renditionRef' = NullNum
    /\ timers' = IF rendererUp THEN ClearTimeouts(timers, UnmountTimers)
                 ELSE timers
    /\ layoutTimeout' = NullNum
    /\ unbuilt' = FALSE
    /\ hideTimeout' = NullNum
    /\ lastInput' = NullNum
    /\ UNCHANGED <<highlights, nextId, shelfVars, lastOp, overlay, styleVars, now, inst,
                   staleWrites, burst, toast>>
    /\ builds' = StaleBuilds(builds, epubRef')

\* the route parameter changes while ReaderView stays mounted
Switch(b) ==
    /\ route # Null
    /\ b # route
    /\ b \in DOMAIN books
    /\ ReaderCleanup
    /\ route' = b
    /\ rendererUp' = TRUE
    /\ IF rendererUp /\ books[b].filePath = books[route].filePath
       THEN \* the init effect's dependency [book.filePath] is unchanged
            /\ readerStore' = initialState
            /\ UNCHANGED <<inst, epubRef, renditionRef, loads, timers>>
       ELSE /\ Len(loads) < MaxLoads
            /\ timers' = IF rendererUp
                         THEN ClearTimeouts(timers, InitCleanupTimers)
                         ELSE timers
            /\ readerStore' = StartLoad(initialState)
            /\ inst' = IF rendererUp THEN inst ELSE inst + 1
            /\ epubRef' = NullNum
            /\ renditionRef' = NullNum
            /\ loads' = Append(IF rendererUp THEN Settle(CleanupLoads(loads))
                               ELSE loads,
                               NewLoad(b, IF rendererUp THEN inst ELSE inst + 1))
    /\ unbuilt' = FALSE
    /\ hideTimeout' = HideEffect(readerStore, readerStore', hideTimeout, now)
    /\ UNCHANGED <<highlights, nextId, shelfVars, lastOp, overlay, styleVars, now, staleWrites,
                   layoutTimeout, burst, toast, lastInput>>
    /\ builds' = StaleBuilds(builds, epubRef')

\* ---------------------------------------------------------------- initEpub

\* a mutation of the catch block: the error is logged only
FailUnreported(i) ==
    /\ loads' = Settle([loads EXCEPT ![i].pc = "dead"])
    /\ UNCHANGED <<readerStore, rendererUp, epubRef, renditionRef,
                   timers, layoutTimeout, toast>>

\* the catch block of initEpub: a deactivated load returns silently, a live
\* one sets the error, which makes ReaderView render its error screen in
\* place of EpubRenderer (whose cleanup then runs)
Fail(i) ==
    IF ~loads[i].active
    THEN /\ loads' = Settle([loads EXCEPT ![i].pc = "dead"])
         /\ UNCHANGED <<readerStore, rendererUp, epubRef, renditionRef,
                        timers, layoutTimeout, toast>>
    ELSE /\ readerStore' = [readerStore EXCEPT !.error = "failed",
                                               !.isLoading = FALSE]
         /\ toast' = "failed"
         /\ loads' = Settle([CleanupLoads(loads) EXCEPT ![i].pc = "dead"])
         /\ rendererUp' = FALSE
         /\ epubRef' = NullNum
         /\ renditionRef' = NullNum
         /\ timers' = ClearTimeouts(timers, UnmountTimers)
         /\ layoutTimeout' = NullNum

\* await readBookFile(book.filePath) settles
ReadDone(i, ok) ==
    /\ loads[i].pc = "read"
    /\ IF ~ok THEN Fail(i)
       ELSE IF ~loads[i].active
       THEN /\ loads' = Settle([loads EXCEPT ![i].pc = "dead"])
            /\ UNCHANGED <<readerStore, rendererUp, epubRef, renditionRef,
                           timers, layoutTimeout, toast>>
       ELSE /\ epubRef' = i
            /\ loads' = [loads EXCEPT ![i].pc = "ready"]
            /\ UNCHANGED <<readerStore, rendererUp, renditionRef,
                           timers, layoutTimeout, toast>>
    /\ UNCHANGED <<libVars, lastOp, overlay, styleVars, now, route, inst, ghostVars,
                   burst, unbuilt, hideTimeout, lastInput>>
    /\ builds' = StaleBuilds(builds, epubRef')

\* await epub.ready settles
ReadyDone(i, ok) ==
    /\ loads[i].pc = "ready"
    /\ IF ~ok THEN Fail(i)
       ELSE /\ loads' = IF loads[i].active
                        THEN [loads EXCEPT ![i].pc = "toc"]
                        ELSE Settle([loads EXCEPT ![i].pc = "dead"])
            /\ UNCHANGED <<readerStore, rendererUp, epubRef, renditionRef,
                           timers, layoutTimeout, toast>>
    /\ UNCHANGED <<libVars, lastOp, overlay, styleVars, now, route, inst, ghostVars,
                   burst, unbuilt, hideTimeout, lastInput>>
    /\ builds' = StaleBuilds(builds, epubRef')

\* the step after await getTableOfContents(epub) resolves: the TOC callback,
\* renderTo, renditionRef.current = rendition, applyStyles, display(...)
AfterToc(i) ==
    /\ loads' = [loads EXCEPT ![i].pc = "display"]
    /\ renditionRef' = IF rendererUp /\ loads[i].inst = inst THEN i
                       ELSE renditionRef
    /\ staleWrites' = IF loads[i].active THEN staleWrites
                      ELSE staleWrites \cup {"onTocLoaded", "renditionRef"}

\* await getTableOfContents(epub) settles; "throws" is renderTo throwing
\* after the callback has run
TocDone(i, outcome) ==
    /\ loads[i].pc = "toc"
    /\ CASE outcome = "ok" ->
              /\ AfterToc(i)
              /\ UNCHANGED <<readerStore, rendererUp, epubRef, timers,
                             layoutTimeout, toast>>
         [] outcome = "throws" ->
              /\ Fail(i)
              /\ staleWrites' = IF loads[i].active THEN staleWrites
                                ELSE staleWrites \cup {"onTocLoaded"}
         [] OTHER ->
              /\ Fail(i)
              /\ UNCHANGED staleWrites
    /\ UNCHANGED <<libVars, lastOp, overlay, styleVars, now, route, inst,
                   due, sessionBegan, sessionBook, cleanups,
                   burst, unbuilt, hideTimeout, lastInput>>
    /\ builds' = StaleBuilds(builds, epubRef')

\* history: a session begins; one still in progress ends uncredited
DueAfterStart ==
    IF sessionBegan = NullNum THEN due
    ELSE [due EXCEPT ![sessionBook] = @ + (now - sessionBegan) \div SecondMs]

\* startSession(), setLoading(false), and the history of the session
BecomeReady(i) ==
    /\ loads' = [loads EXCEPT ![i].pc = "generate", ![i].ready = TRUE]
    /\ readerStore' = [readerStore EXCEPT !.sessionStartTime = now,
                                          !.isLoading = FALSE]
    /\ due' = DueAfterStart
    /\ sessionBegan' = now
    /\ sessionBook' = route
    /\ cleanups' = 0
    /\ unbuilt' = FALSE

\* the step after await rendition.display(...) resolves: the event handlers,
\* startSession(), setLoading(false), and the index build is started
AfterDisplay(i) ==
    IF ~loads[i].active
    THEN /\ loads' = Settle([loads EXCEPT ![i].pc = "dead"])
         /\ UNCHANGED <<readerStore, due, sessionBegan, sessionBook, cleanups,
                        unbuilt>>
    ELSE BecomeReady(i)

DisplayDone(i, ok) ==
    /\ loads[i].pc = "display"
    /\ IF ok
       THEN /\ AfterDisplay(i)
            /\ UNCHANGED <<rendererUp, epubRef, renditionRef, timers,
                           layoutTimeout, toast>>
       ELSE /\ Fail(i)
            /\ UNCHANGED <<due, sessionBegan, sessionBook, cleanups, unbuilt>>
    /\ UNCHANGED <<libVars, lastOp, overlay, styleVars, now, route, inst, staleWrites,
                   burst, hideTimeout, lastInput>>
    /\ builds' = StaleBuilds(builds, epubRef')

\* epub.locations.generate(2048) settles; its then-callback publishes the
\* total and the recomputed position
GenerateDone(i, ok) ==
    /\ loads[i].pc = "generate"
    /\ loads' = Settle([loads EXCEPT ![i].pc = "done",
                                     ![i].built = IF ok THEN TRUE ELSE @,
                                     ![i].indexDone = TRUE])
    /\ readerStore' =
         IF ok /\ loads[i].active
         THEN [readerStore EXCEPT
                 !.totalLocations = TotalLocs,
                 !.currentLocation = loads[i].at,
                 !.currentPage =
                     PageFromPercentage(PercentOf(loads[i].at), TotalLocs),
                 !.totalPages = TotalLocs,
                 !.progress = PercentOf(loads[i].at)]
         ELSE readerStore
    /\ UNCHANGED <<libVars, lastOp, overlay, styleVars, now, route, rendererUp, inst, epubRef,
                   renditionRef, ghostVars, debVars, chromeVars>>

\* ------------------------------------------------------ debounced rebuilds

Concerns == {"resize", "layout"}

NoBurst == [triggers |-> 0, rebuilds |-> 0, lost |-> FALSE]

\* the handles setTimeout has free for the timeout variable of slot k (0 the
\* layout effect's, i the init effect's of load i): no pending timer has them,
\* and no other variable holds them
FreeTimers(ts, k) ==
    {k * MaxTimers + n : n \in 1..MaxTimers} \ {t.id : t \in ts}

\* the handle setTimeout returns
nextTimer(ts, k) ==
    CHOOSE n \in FreeTimers(ts, k) : \A m \in FreeTimers(ts, k) : n <= m

Pending(c) == {t \in timers : t.kind = c}

\* history: a trigger of concern c arrives; it continues the burst if a timer
\* of c is pending, else it starts one (triggers is counted up to 2)
Triggered(c) ==
    IF Pending(c) # {}
    THEN [burst EXCEPT ![c].triggers = IF @ < 2 THEN @ + 1 ELSE @]
    ELSE [burst EXCEPT ![c] = [triggers |-> 1, rebuilds |-> 0,
                               lost |-> FALSE]]

\* history: timer t fires; started says that a rebuild was started, and lost
\* that none was although the load the timer was set under is the live one
Fired(t, started) ==
    [burst EXCEPT ![t.kind].rebuilds = IF started /\ @ < 2 THEN @ + 1 ELSE @,
                  ![t.kind].lost = \/ @
                                   \/ /\ ~started
                                      /\ t.owner = Len(loads)
                                      /\ loads[t.owner].active]

\* a mutation of the resized handler: the pending timer is not cleared
ResizedNotCleared(ts, i) == ts

\* the resized handler, first half: clearTimeout(regenerateTimeout) if set
ResizedCleared(ts, i) == ClearTimeouts(ts, {loads[i].regenerateTimeout})

\* the rendition of load i emits resized: the pending timer is cleared and
\* setTimeout(regenerateLocations, 120) is assigned to regenerateTimeout
Resized(i) ==
    LET cleared == ResizedCleared(timers, i) IN
    /\ loads[i].ready
    /\ ~loads[i].destroyed
    /\ FreeTimers(cleared, i) # {}
    /\ timers' = cleared \cup {[id |-> nextTimer(cleared, i), kind |-> "resize",
                                owner |-> i]}
    /\ loads' = [loads EXCEPT ![i].regenerateTimeout = nextTimer(cleared, i)]
    /\ burst' = Triggered("resize")
    /\ UNCHANGED <<libVars, lastOp, overlay, styleVars, now, readerStore, route, rendererUp, inst,
                   epubRef, renditionRef, ghostVars, layoutTimeout, builds,
                   unbuilt, chromeVars>>

\* a layout-affecting setting changes: the layout effect's cleanup clears its
\* timeout, and the effect runs again: nothing without epubRef.current and
\* renditionRef.current, else handle() sets a timer of 120 ms
LayoutSettingChange ==
    LET cleared == ClearTimeouts(timers, {layoutTimeout}) IN
    /\ IF rendererUp /\ epubRef # NullNum /\ renditionRef # NullNum
       THEN /\ timers' = cleared \cup {[id |-> nextTimer(cleared, 0),
                                        kind |-> "layout",
                                        owner |-> Len(loads)]}
            /\ layoutTimeout' = nextTimer(cleared, 0)
            /\ burst' = Triggered("layout")
       ELSE /\ timers' = IF rendererUp THEN cleared ELSE timers
            /\ layoutTimeout' = NullNum
            /\ UNCHANGED burst
    /\ unbuilt' = (rendererUp \/ unbuilt)
    /\ UNCHANGED <<libVars, lastOp, overlay, styleVars, now, readerStore, viewVars, ghostVars,
                   builds, chromeVars>>

\* a mutation of the timer callbacks: they start nothing
StartsBuildNever(t) == FALSE

\* whether the callback of timer t starts a rebuild: regenerateLocations
\* returns without epubRef.current, renditionRef.current or isActive; the
\* layout callback is epubRef.current?.locations.generate(2048)
StartsBuild(t) ==
    IF t.kind = "resize"
    THEN epubRef # NullNum /\ renditionRef # NullNum /\ loads[t.owner].active
    ELSE epubRef # NullNum

\* the value of builds in the specifications without the settling of
\* rebuilds: they are the projection of the reader onto the other variables
Unfollowed == {[kind |-> "none", epub |-> NullNum]}

\* a pending timer fires; a rebuild it starts, of the index of
\* epubRef.current, is in flight and is counted in burst
TimerFire(t) ==
    /\ t \in timers
    /\ timers' = timers \ {t}
    /\ builds' = IF StartsBuild(t) /\ builds # Unfollowed
                 THEN builds \cup {[kind |-> t.kind, epub |-> epubRef]}
                 ELSE builds
    /\ burst' = Fired(t, StartsBuild(t))
    /\ unbuilt' = (unbuilt /\ ~StartsBuild(t))
    /\ UNCHANGED <<libVars, lastOp, overlay, styleVars, now, readerStore, viewVars, ghostVars,
                   layoutTimeout, chromeVars>>

\* locations.length() of epubRef.current, given the loads
LocationsLength(ls) == IF ls[epubRef].built THEN TotalLocs ELSE 0

\* updateLocation with renditionRef.current.currentLocation(), given the loads
\* and the total; a rendition that has displayed nothing has no location
LocationUpdated(store, ls, numeric) ==
    IF ls[renditionRef].ready
    THEN [store EXCEPT
            !.currentLocation = ls[renditionRef].at,
            !.currentPage = PageAfterRebuild(ls[renditionRef].at,
                                             LocationsLength(ls), numeric),
            !.totalPages = LocationsLength(ls),
            !.progress = PercentOf(ls[renditionRef].at)]
    ELSE store

\* the reader store after a rebuild has resolved. regenerateLocations: a
\* null epubRef.current throws into its catch; else setTotalLocations, and
\* with a total above 0 (a null renditionRef.current throws into the catch)
\* updateLocation. The layout callback: with a total above 0,
\* setTotalLocations and (a null renditionRef.current throws) updateLocation
Rebuilt(kind, store, ls, numeric) ==
    IF epubRef = NullNum THEN store
    ELSE LET total == LocationsLength(ls)
             counted == [store EXCEPT !.totalLocations = total]
         IN  IF total = 0 THEN (IF kind = "resize" THEN counted ELSE store)
             ELSE IF renditionRef = NullNum THEN counted
             ELSE LocationUpdated(counted, ls, numeric)

\* a mutation of a rejected rebuild: the total is cleared
RebuildFailedClearing(store) == [store EXCEPT !.totalLocations = 0]

\* the reader store after a rebuild has rejected: regenerateLocations logs
\* it, the layout callback's promise has no handler
RebuildFailed(store) == store

\* the generate(2048) of rebuild b settles
BuildDone(b, ok) ==
    /\ builds # Unfollowed
    /\ b \in builds
    /\ builds' = builds \ {b}
    /\ loads' = IF ok /\ b.epub # NullNum
                THEN [loads EXCEPT ![b.epub].built = TRUE]
                ELSE loads
    /\ \E numeric \in BOOLEAN :
          readerStore' = IF ok THEN Rebuilt(b.kind, readerStore, loads', numeric)
                         ELSE RebuildFailed(readerStore)
    /\ UNCHANGED <<libVars, lastOp, overlay, styleVars, now, route, rendererUp, inst, epubRef,
                   renditionRef, ghostVars, timers, layoutTimeout, burst,
                   unbuilt, chromeVars>>

\* ---------------------------------------------------- handleLocationChange

\* the progress handleLocationChange computes: from the index when
\* locations.length() > 0, else 0
ProgressAt(cfi, built) == IF built THEN PercentOf(cfi) ELSE 0

\* the sections of the spine, each standing for its cfiBase
Sections == {"s1", "s2"}

\* cfi.split('!')[0]: the spine part of an address
CfiBase(cfi) == IF cfi = "cfiA" THEN "s1" ELSE "s2"

\* spine.get(href)?.cfiBase
SpineGet(href) == IF href \in Sections THEN href ELSE Null

\* navigation.toc.find(...): the position of the first entry of the list
\* whose section has the address's cfiBase, 0 when there is none; the
\* subitems of the entries are not looked at
FindChapter(nav, cfi) ==
    LET hits == {k \in 1..Len(nav) : SpineGet(nav[k].href) = CfiBase(cfi)}
    IN  IF hits = {} THEN 0 ELSE CHOOSE k \in hits : \A j \in hits : k <= j

\* if (chapter) setCurrentChapter(chapter.label)
ChapterSet(store, nav, cfi) ==
    IF FindChapter(nav, cfi) = 0 THEN store
    ELSE [store EXCEPT !.currentChapter = nav[FindChapter(nav, cfi)].label]

\* the rendition of load i emits relocated at cfi
Relocated(i, cfi) ==
    /\ loads[i].ready
    /\ ~loads[i].destroyed
    /\ loads' = [loads EXCEPT ![i].at = cfi]
    /\ IF epubRef = NullNum \/ ~loads[i].active
       THEN UNCHANGED <<readerStore, books>>
       ELSE LET built == loads[epubRef].built
                progress == ProgressAt(cfi, built)
            IN  /\ readerStore' =
                     ChapterSet(
                       [readerStore EXCEPT
                          !.currentLocation = cfi,
                          !.currentPage =
                              IF built
                              THEN PageFromPercentage(PercentOf(cfi), TotalLocs)
                              ELSE Displayed(cfi).page,
                          !.totalPages =
                              IF built THEN TotalLocs ELSE Displayed(cfi).total,
                          !.progress = progress,
                          !.totalLocations = IF built THEN TotalLocs ELSE @],
                       loads[epubRef].nav, cfi)
                /\ books' = updateReadingProgress(books, route, cfi, progress)
    /\ UNCHANGED <<highlights, nextId, shelfVars, lastOp, overlay, styleVars, now, route,
                   rendererUp, inst,
                   epubRef, renditionRef, ghostVars, debVars, chromeVars>>

\* ------------------------------------------------------ style projection

\* the effect on [applyStyles, injectContentStyles, readerSettings], run
\* after the render that follows a change of settings.reader: with
\* renditionRef.current set, applyStyles and injectContentStyles of that
\* render style the rendition and its loaded contents
StyleEffect ==
    /\ rendererUp
    /\ styled.applied # settings
    /\ styled' = IF renditionRef # NullNum
                 THEN [config |-> settings, applied |-> settings]
                 ELSE [styled EXCEPT !.applied = settings]
    /\ UNCHANGED <<libVars, lastOp, overlay, now, readerStore, viewVars,
                   ghostVars, debVars, chromeVars, settings, dataTheme>>

\* the rendition of load i emits rendered (and runs its content hook): the
\* handlers initEpub registered call the applyStyles and
\* injectContentStyles of the render whose init effect started the load.
\* The init effect depends on book.filePath only, so they read the
\* readerSettings of that render
ContentRendered(i) ==
    /\ loads[i].ready
    /\ ~loads[i].destroyed
    /\ renditionRef = i
    /\ styled' = [styled EXCEPT !.config = loads[i].styles]
    /\ UNCHANGED <<libVars, lastOp, overlay, now, readerStore, viewVars,
                   ghostVars, debVars, chromeVars, settings, dataTheme>>

\* ------------------------------------------------------- ReaderBottomBar

\* totalLocations || storedTotalPages || 1
ShownTotalPages(store) ==
    IF store.totalLocations # 0 THEN store.totalLocations
    ELSE IF store.totalPages # 0 THEN store.totalPages ELSE 1

\* Math.min(totalPages, Math.max(1, storedCurrentPage || 1))
ShownCurrentPage(store) ==
    Least(ShownTotalPages(store),
          Most(1, IF store.currentPage # 0 THEN store.currentPage ELSE 1))

\* Math.round(n / d) for n >= 0 and d > 0
RoundRatio(n, d) == (2 * n + d) \div (2 * d)

\* the percentage the bar shows:
\* Math.min(100, Math.max(0,
\*   Math.round(progress || (currentPage / totalPages) * 100)))
roundedProgress(store) ==
    Least(100, Most(0,
        IF store.progress # 0 THEN store.progress
        ELSE RoundRatio(ShownCurrentPage(store) * 100,
                        ShownTotalPages(store))))

\* ------------------------------------------- goToLocation, goToPercentage

\* a target that rendition.display rejects
BadTarget == "bad"

\* the percentages the progress bar is scrubbed to, one beyond the range
Percentages == {0, 40, 150}

\* locations.cfiFromPercentage(Math.max(0, Math.min(percentage, 100)) / 100)
\* on a generated index
CfiFromPercentage(percentage) ==
    LET normalized == IF percentage < 0 THEN 0
                      ELSE IF percentage > 100 THEN 100 ELSE percentage
    IN  IF normalized < 40 THEN "cfiA" ELSE "cfiB"

\* a mutation of the catch blocks of goToLocation and goToPercentage: the
\* rejection is handled as a failed load
GoToFailedAsLoad(i) ==
    /\ Fail(i)
    /\ UNCHANGED <<libVars, lastOp, overlay, styleVars, now, route, inst, ghostVars, burst, builds,
                   unbuilt, hideTimeout, lastInput>>

\* the catch blocks of goToLocation and goToPercentage, for the rendition of
\* load i: console.error and toast.error
GoToFailed(i) ==
    /\ toast' = "navigation failed"
    /\ UNCHANGED <<libVars, lastOp, overlay, styleVars, now, readerStore, viewVars, ghostVars,
                   debVars, hideTimeout, lastInput>>

\* goToLocation(target) and the settling of its display: a displayed target
\* makes the rendition emit relocated
GoToLocation(target) ==
    /\ rendererUp
    /\ renditionRef # NullNum
    /\ IF target = BadTarget THEN GoToFailed(renditionRef)
       ELSE Relocated(renditionRef, target)

\* goToPercentage(percentage) and the settling of its display; ok is whether
\* cfiFromPercentage and display succeed
GoToPercentage(percentage, ok) ==
    /\ rendererUp
    /\ epubRef # NullNum
    /\ renditionRef # NullNum
    /\ IF ~ok THEN GoToFailed(renditionRef)
       ELSE /\ loads[epubRef].built
            /\ Relocated(renditionRef, CfiFromPercentage(percentage))

HalfSecond == SecondMs \div 2

Tick ==
    /\ now < (MaxTicks + 2) * HalfSecond
    /\ now' = now + HalfSecond
    /\ UNCHANGED <<libVars, lastOp, overlay, styleVars, readerStore, viewVars, ghostVars, debVars,
                   chromeVars>>

\* ================= the auto-hide of the chrome (ReaderView)
Panels == {"isTocOpen", "isSettingsOpen", "isBookmarksOpen"}

\* what the chrome handlers leave alone
beyondChrome == <<libVars, lastOp, overlay, styleVars, viewVars, ghostVars, debVars, toast>>

\* handleMouseMove: showUI when the chrome is hidden, then the
\* resetHideTimeout of the render the handler belongs to; the effect follows
\* the render that showUI causes
MouseMove ==
    /\ route # Null
    /\ readerStore' = [readerStore EXCEPT !.isUIVisible = TRUE]
    /\ hideTimeout' = HideEffect(readerStore, readerStore',
                                 resetHideTimeout(readerStore, now), now)
    /\ lastInput' = now
    /\ UNCHANGED <<beyondChrome, now>>

\* handleReaderClick in the centre third: toggleUI, the resetHideTimeout of
\* the handler's render, then the effect of the next render
ReaderClick ==
    /\ route # Null
    /\ readerStore' = [readerStore EXCEPT !.isUIVisible = ~@]
    /\ hideTimeout' = HideEffect(readerStore, readerStore',
                                 resetHideTimeout(readerStore, now), now)
    /\ lastInput' = now
    /\ UNCHANGED <<beyondChrome, now>>

\* the keys s, t and b: the panel is opened when closed and closed when open
TogglePanel(p) ==
    /\ route # Null
    /\ readerStore' = [readerStore EXCEPT ![p] = ~@]
    /\ hideTimeout' = HideEffect(readerStore, readerStore', hideTimeout, now)
    /\ lastInput' = now
    /\ UNCHANGED <<beyondChrome, now>>

\* the panel the escape key closes: settings, else contents, else bookmarks
EscapeCloses(store) ==
    IF store.isSettingsOpen THEN "isSettingsOpen"
    ELSE IF store.isTocOpen THEN "isTocOpen"
    ELSE "isBookmarksOpen"

\* the escape key: one open panel is closed, and with none open the reader
\* is left for the library
Escape ==
    /\ route # Null
    /\ \/ /\ PanelOpen(readerStore)
          /\ readerStore' =
                [readerStore EXCEPT ![EscapeCloses(readerStore)] = FALSE]
          /\ hideTimeout' =
                HideEffect(readerStore, readerStore', hideTimeout, now)
          /\ lastInput' = now
          /\ UNCHANGED <<beyondChrome, now>>
       \/ /\ ~PanelOpen(readerStore)
          /\ Unmount

\* handlePrevPage, handleNextPage and the arrow, space and page keys:
\* rendition.prev() or next() and nothing else; the relocated event follows
\* on its own
PageTurn ==
    /\ route # Null
    /\ rendererUp
    /\ renditionRef # NullNum
    /\ lastInput' = now
    /\ UNCHANGED <<beyondChrome, now, readerStore, hideTimeout>>

\* the hide timer fires, at or after the time it was set for: hideUI, and
\* the effect of the render that follows
HideFire ==
    /\ hideTimeout # NullNum
    /\ now >= hideTimeout
    /\ readerStore' = [readerStore EXCEPT !.isUIVisible = FALSE]
    /\ hideTimeout' = HideEffect(readerStore, readerStore', NullNum, now)
    /\ UNCHANGED <<beyondChrome, now, lastInput>>

\* a second passes with the reader open
Wait ==
    /\ now < HideDelay + (MaxTicks + 1) * SecondMs
    /\ now' = now + SecondMs
    /\ UNCHANGED <<libVars, lastOp, overlay, styleVars, readerStore, viewVars, ghostVars, debVars,
                   chromeVars>>

\* ================= the highlight overlay (the EpubRenderer with annotations)
\* applyExistingHighlights: annotations.remove and annotations.add for each
\* highlight of the book, in array order
RECURSIVE ApplyExistingHighlights(_, _)
ApplyExistingHighlights(marks, hs) ==
    IF hs = <<>> THEN marks
    ELSE ApplyExistingHighlights(
           [marks EXCEPT ![Head(hs).startLocation] = Head(hs).color], Tail(hs))

\* getBookHighlights(bookId).find((h) => h.startLocation === cfiRange)?.id
ExistingAt(hs, bookId, cfiRange) ==
    LET at == {i \in 1..Len(hs) :
                 hs[i].bookId = bookId /\ hs[i].startLocation = cfiRange}
    IN  IF at = {} THEN NullNum
        ELSE hs[CHOOSE i \in at : \A j \in at : i <= j].id

\* getBookHighlights(bookId).find((h) => h.id === id), as the set of the
\* highlights found (none or one)
FoundById(hs, bookId, id) ==
    {hs[i] : i \in {j \in 1..Len(hs) : hs[j].bookId = bookId /\ hs[j].id = id}}

\* what the overlay handlers leave alone
beyondOverlay == <<books, shelfVars, readerRest>>

\* the rendition emits selected for the text at cfiRange
Selected(cfiRange) ==
    /\ overlay.subscribed
    /\ renditionRef # NullNum
    /\ overlay' = [overlay EXCEPT !.selection =
                     [cfiRange |-> cfiRange,
                      existing |-> ExistingAt(highlights, route, cfiRange)]]
    /\ UNCHANGED <<highlights, nextId, lastOp, beyondOverlay>>

\* handleRemoveHighlight: the decoration of the highlight and of the
\* selection are removed, then removeHighlight (which calls the subscriber)
HandleRemoveHighlight ==
    /\ overlay.subscribed
    /\ renditionRef # NullNum
    /\ overlay.selection # NoSelection
    /\ overlay.selection.existing # NullNum
    /\ LET sel == overlay.selection
           found == FoundById(highlights, route, sel.existing)
           target == IF found = {} THEN sel.cfiRange
                     ELSE (CHOOSE h \in found : TRUE).startLocation
           cleared == [overlay EXCEPT !.marks[target] = Null,
                                      !.marks[sel.cfiRange] = Null]
       IN  /\ highlights' = RemoveHighlightFrom(highlights, sel.existing)
           /\ overlay' = [Subscriber(cleared, highlights') EXCEPT
                            !.selection = NoSelection]
    /\ lastOp' = [op |-> "removeHighlight"]
    /\ UNCHANGED <<nextId, beyondOverlay>>

\* handleHighlight(color) on a selection that is not an existing highlight of
\* that colour: removeHighlight of the existing one, addHighlight (each calls
\* the subscriber), then the decoration at the selection is set again
HandleHighlightAdd(color) ==
    /\ nextId <= MaxIds
    /\ LET sel == overlay.selection
           hs1 == IF sel.existing = NullNum THEN highlights
                  ELSE RemoveHighlightFrom(highlights, sel.existing)
           o1 == Subscriber(overlay, hs1)
           hs2 == AddHighlightTo(hs1, nextId, route, sel.cfiRange, color)
           o2 == Subscriber(o1, hs2)
       IN  /\ highlights' = hs2
           /\ overlay' = [o2 EXCEPT !.marks[sel.cfiRange] = color,
                                    !.selection = NoSelection]
           /\ lastOp' = [op |-> "addHighlight", bookId |-> route,
                          startLocation |-> sel.cfiRange, color |-> color,
                          replaced |-> {hs1[i].color : i \in
                                          {j \in 1..Len(hs1) :
                                             /\ hs1[j].bookId = route
                                             /\ hs1[j].startLocation = sel.cfiRange}}]
    /\ nextId' = nextId + 1
    /\ UNCHANGED beyondOverlay

\* handleHighlight(color): the colour an existing highlight already has
\* means removal
HandleHighlight(color) ==
    /\ overlay.subscribed
    /\ renditionRef # NullNum
    /\ overlay.selection # NoSelection
    /\ IF \E h \in FoundById(highlights, route, overlay.selection.existing) :
             h.color = color
       THEN HandleRemoveHighlight
       ELSE HandleHighlightAdd(color)

\* the rendered handler: applyStyles(rendition) and nothing else. The
\* redisplay itself is the rendition's: the decorations at the addresses in
\* lost are not drawn again by it
Rendered(lost) ==
    /\ overlay.subscribed
    /\ renditionRef # NullNum
    /\ overlay' = [overlay EXCEPT
                     !.marks = [l \in Locs |-> IF l \in lost THEN Null ELSE @[l]]]
    /\ UNCHANGED <<highlights, nextId, lastOp, beyondOverlay>>

\* ================= the earlier EpubRenderer (components/reader/EpubRenderer.tsx)
\* Its init effect has no isActive flag: a run goes on after the cleanup, which
\* only destroys epubRef.current. The load records are those of initEpub, with
\* active never cleared.

\* isInitialized of the mounted instance: a run of it reached setIsInitialized
LegacyInitialized ==
    \E i \in 1..Len(loads) : loads[i].inst = inst /\ loads[i].ready

\* the refs a run writes are those of its instance, if it is still mounted
LegacyOwnsRefs(i) == rendererUp /\ loads[i].inst = inst

\* the effect cleanup: epubRef.current.destroy() if epubRef.current is set
LegacyCleanup(ls) ==
    [i \in 1..Len(ls) |->
        [ls[i] EXCEPT !.destroyed = IF i = epubRef THEN TRUE ELSE @]]

LegacyUnmount ==
    /\ route # Null
    /\ ReaderCleanup
    /\ readerStore' = initialState
    /\ loads' = IF rendererUp THEN LegacyCleanup(loads) ELSE loads
    /\ route' = Null
    /\ rendererUp' = FALSE
    /\ epubRef' = NullNum
    /\ renditionRef' = NullNum
    /\ hideTimeout' = NullNum
    /\ lastInput' = NullNum
    /\ UNCHANGED <<highlights, nextId, shelfVars, lastOp, overlay, styleVars, now, inst,
                   staleWrites, debVars, toast>>

\* the route parameter changes: when book.filePath changes the cleanup runs
\* and the effect runs again, returning at once if isInitialized
LegacySwitch(b) ==
    /\ route # Null
    /\ b # route
    /\ b \in DOMAIN books
    /\ ReaderCleanup
    /\ route' = b
    /\ rendererUp' = TRUE
    /\ IF rendererUp /\ books[b].filePath = books[route].filePath
       THEN /\ readerStore' = initialState
            /\ UNCHANGED <<inst, epubRef, renditionRef, loads>>
       ELSE IF rendererUp /\ LegacyInitialized
       THEN /\ readerStore' = initialState
            /\ loads' = LegacyCleanup(loads)
            /\ UNCHANGED <<inst, epubRef, renditionRef>>
       ELSE /\ Len(loads) < MaxLoads
            /\ readerStore' = StartLoad(initialState)
            /\ inst' = IF rendererUp THEN inst ELSE inst + 1
            /\ epubRef' = IF rendererUp THEN epubRef ELSE NullNum
            /\ renditionRef' = IF rendererUp THEN renditionRef ELSE NullNum
            /\ loads' = Append(IF rendererUp THEN LegacyCleanup(loads) ELSE loads,
                               NewLoad(b, IF rendererUp THEN inst ELSE inst + 1))
    /\ hideTimeout' = HideEffect(readerStore, readerStore', hideTimeout, now)
    /\ UNCHANGED <<highlights, nextId, shelfVars, lastOp, overlay, styleVars, now, staleWrites,
                   debVars, toast, lastInput>>

\* the catch block: setError, setLoading(false), whatever became of the
\* reader; the error makes a mounted ReaderView unmount EpubRenderer
LegacyFail(i) ==
    /\ readerStore' = [readerStore EXCEPT !.error = "failed",
                                          !.isLoading = FALSE]
    /\ loads' = [(IF rendererUp THEN LegacyCleanup(loads) ELSE loads)
                    EXCEPT ![i].pc = "dead"]
    /\ rendererUp' = FALSE
    /\ epubRef' = IF rendererUp THEN NullNum ELSE epubRef
    /\ renditionRef' = IF rendererUp THEN NullNum ELSE renditionRef

\* await readBookFile(book.filePath) settles; epubRef.current = epub
LegacyReadDone(i, ok) ==
    /\ loads[i].pc = "read"
    /\ IF ok
       THEN /\ loads' = [loads EXCEPT ![i].pc = "ready"]
            /\ epubRef' = IF LegacyOwnsRefs(i) THEN i ELSE epubRef
            /\ UNCHANGED <<readerStore, rendererUp, renditionRef>>
       ELSE LegacyFail(i)
    /\ UNCHANGED <<libVars, lastOp, overlay, styleVars, now, route, inst, ghostVars, debVars,
                   chromeVars>>

\* await epub.ready settles
LegacyReadyDone(i, ok) ==
    /\ loads[i].pc = "ready"
    /\ IF ok
       THEN /\ loads' = [loads EXCEPT ![i].pc = "toc"]
            /\ UNCHANGED <<readerStore, rendererUp, epubRef, renditionRef>>
       ELSE LegacyFail(i)
    /\ UNCHANGED <<libVars, lastOp, overlay, styleVars, now, route, inst, ghostVars, debVars,
                   chromeVars>>

\* await getTableOfContents(epub) settles; onTocLoaded(toc), renderTo,
\* renditionRef.current = rendition, and locations.generate(1024) is awaited
LegacyTocDone(i, ok) ==
    /\ loads[i].pc = "toc"
    /\ IF ok
       THEN /\ loads' = [loads EXCEPT ![i].pc = "generate"]
            /\ renditionRef' = IF LegacyOwnsRefs(i) THEN i ELSE renditionRef
            /\ UNCHANGED <<readerStore, rendererUp, epubRef>>
       ELSE LegacyFail(i)
    /\ UNCHANGED <<libVars, lastOp, overlay, styleVars, now, route, inst, ghostVars, debVars,
                   chromeVars>>

\* await epub.locations.generate(1024) settles; setTotalLocations, and the
\* first display is awaited
LegacyGenerateDone(i, ok) ==
    /\ loads[i].pc = "generate"
    /\ IF ok
       THEN /\ loads' = [loads EXCEPT ![i].pc = "display", ![i].built = TRUE,
                                      ![i].indexDone = TRUE]
            /\ readerStore' = [readerStore EXCEPT !.totalLocations = TotalLocs]
            /\ UNCHANGED <<rendererUp, epubRef, renditionRef>>
       ELSE LegacyFail(i)
    /\ UNCHANGED <<libVars, lastOp, overlay, styleVars, now, route, inst, ghostVars, debVars,
                   chromeVars>>

\* await rendition.display(...) settles; the event handlers, startSession(),
\* setIsInitialized(true), setLoading(false)
LegacyDisplayDone(i, ok) ==
    /\ loads[i].pc = "display"
    /\ IF ok
       THEN /\ loads' = [loads EXCEPT ![i].pc = "done", ![i].ready = TRUE]
            /\ readerStore' = [readerStore EXCEPT !.sessionStartTime = now,
                                                  !.isLoading = FALSE]
            /\ UNCHANGED <<rendererUp, epubRef, renditionRef>>
       ELSE LegacyFail(i)
    /\ UNCHANGED <<libVars, lastOp, overlay, styleVars, now, route, inst, ghostVars, debVars,
                   chromeVars>>

\* ========================================================== specifications

\* no reader open
InitReader ==
    /\ readerStore = initialState
    /\ route = Null
    /\ rendererUp = FALSE
    /\ inst = 0
    /\ epubRef = NullNum
    /\ renditionRef = NullNum
    /\ loads = <<>>
    /\ due = [b \in BookIds |-> 0]
    /\ sessionBegan = NullNum
    /\ sessionBook = Null
    /\ cleanups = 0
    /\ staleWrites = {}
    /\ timers = {}
    /\ layoutTimeout = NullNum
    /\ burst = [c \in Concerns |-> NoBurst]
    /\ builds = Unfollowed
    /\ unbuilt = FALSE
    /\ toast = Null
    /\ hideTimeout = NullNum
    /\ lastInput = NullNum
    /\ overlay = NoOverlay
    /\ settings = defaultReaderSettings
    /\ dataTheme = defaultReaderSettings.theme
    /\ styled = NoStyle

InitCommon ==
    /\ highlights = <<>>
    /\ nextId = 1
    /\ bookmarks = <<>>
    /\ collections = <<>>
    /\ lastOp = NoOp
    /\ InitReader

\* the library store as constructed: empty
InitLib ==
    /\ InitCommon
    /\ books = <<>>
    /\ now = SecondMs

\* the highlight actions, with books coming and going
NextLib ==
    \/ \E id \in BookIds : AddBook(id, "f1")
    \/ \E id \in BookIds : RemoveBook(id)
    \/ \E b \in BookIds, l \in Locs, c \in Colors : AddHighlight(b, l, c)
    \/ \E id \in 1..MaxIds, u \in HighlightUpdates : UpdateHighlight(id, u)
    \/ \E id \in 1..MaxIds : RemoveHighlight(id)
    \/ \E b \in BookIds : ClearAllHighlights(b)

SpecLib == InitLib /\ [][NextLib]_vars

\* a library of two imported books and two empty collections
InitShelf ==
    /\ highlights = <<>>
    /\ nextId = 1
    /\ bookmarks = <<>>
    /\ collections = <<NewCollection("c1", <<>>),
                       NewCollection("c2", <<NewCollection("c1", <<>>)>>)>>
    /\ lastOp = NoOp
    /\ InitReader
    /\ books = [b \in BookIds |-> NewBook(IF b = "b1" THEN "f1" ELSE "f2")]
    /\ now = SecondMs

\* books going, with their bookmarks, highlights and collection memberships
NextShelf ==
    \/ \E id \in BookIds : RemoveBook(id)
    \/ \E b \in BookIds : AddBookmark(b, "cfiA")
    \/ \E b \in BookIds : AddHighlight(b, "cfiA", "yellow")
    \/ \E b \in BookIds, c \in CollectionIds : AddBookToCollection(b, c)
    \/ \E b \in BookIds, c \in CollectionIds : RemoveBookFromCollection(b, c)

SpecShelf == InitShelf /\ [][NextShelf]_vars

\* the membership calls, with books and collections going
NextCollections ==
    \/ \E b \in BookIds, c \in CollectionIds : AddBookToCollection(b, c)
    \/ \E b \in BookIds, c \in CollectionIds : RemoveBookFromCollection(b, c)
    \/ \E c \in CollectionIds : DeleteCollection(c)
    \/ \E id \in BookIds : RemoveBook(id)

SpecCollections == InitShelf /\ [][NextCollections]_vars

\* the bookmark calls, and books going with their bookmarks
NextMarks ==
    \/ \E b \in BookIds, l \in Locs : AddBookmark(b, l)
    \/ \E id \in 1..MaxIds, u \in BookmarkUpdates : UpdateBookmark(id, u)
    \/ \E id \in 1..MaxIds : RemoveBookmark(id)
    \/ \E id \in BookIds : RemoveBook(id)

SpecMarks == InitShelf /\ [][NextMarks]_vars

\* a library of two imported books (the second possibly the same file again),
\* no reader open
InitBooks ==
    \E f \in FilePaths :
        books = [b \in BookIds |-> NewBook(IF b = "b1" THEN "f1" ELSE f)]

Init ==
    /\ InitCommon
    /\ InitBooks
    /\ now = SecondMs

\* the book-record actions
NextBooks ==
    \/ \E id \in BookIds, l \in Locs, p \in Progresses :
          UpdateReadingProgress(id, l, p)
    \/ \E id \in BookIds, s \in Statuses : SetBookStatus(id, s)
    \/ \E id \in BookIds : RemoveBook(id)

SpecBooks == Init /\ [][NextBooks]_vars

\* a library of two imported books, no reader open
InitRecords ==
    /\ InitCommon
    /\ books = [b \in BookIds |-> NewBook(IF b = "b1" THEN "f1" ELSE "f2")]
    /\ now = SecondMs

\* every call that targets one book record, in any interleaving; a removed
\* book's id is an id that matches no book
NextRecords ==
    \/ \E id \in BookIds, u \in BookUpdates : UpdateBook(id, u)
    \/ \E id \in BookIds, l \in Locs, p \in Progresses :
          UpdateReadingProgress(id, l, p)
    \/ \E id \in BookIds, n \in 1..MaxReadingTime : UpdateReadingTime(id, n)
    \/ \E id \in BookIds, s \in Statuses : SetBookStatus(id, s)
    \/ \E id \in BookIds : RemoveBook(id)

SpecRecords == InitRecords /\ [][NextRecords]_vars

LoadStep ==
    \/ \E i \in 1..Len(loads), ok \in BOOLEAN : ReadDone(i, ok)
    \/ \E i \in 1..Len(loads), ok \in BOOLEAN : ReadyDone(i, ok)
    \/ \E i \in 1..Len(loads), o \in {"ok", "throws", "rejects"} : TocDone(i, o)
    \/ \E i \in 1..Len(loads), ok \in BOOLEAN : DisplayDone(i, ok)
    \/ \E i \in 1..Len(loads), ok \in BOOLEAN : GenerateDone(i, ok)

Lifecycle ==
    \/ \E b \in BookIds : Mount(b)
    \/ Unmount
    \/ \E b \in BookIds : Switch(b)

\* the reader under a wall clock
Next ==
    \/ Lifecycle
    \/ LoadStep
    \/ Tick

Spec == Init /\ [][Next]_vars

\* the reader under a simulated clock that starts at 0
InitSim ==
    /\ InitCommon
    /\ InitBooks
    /\ now = 0

SpecSim == InitSim /\ [][Next]_vars

\* the reader with relocation events, the clock standing still
NextNav ==
    \/ Lifecycle
    \/ LoadStep
    \/ \E i \in 1..Len(loads), cfi \in Locs : Relocated(i, cfi)

SpecNav == Init /\ [][NextNav]_vars

\* the reader with navigation calls from the table of contents and the
\* progress bar
NextGoTo ==
    \/ Lifecycle
    \/ LoadStep
    \/ \E target \in Locs \cup {BadTarget} : GoToLocation(target)
    \/ \E p \in Percentages, ok \in BOOLEAN : GoToPercentage(p, ok)

SpecGoTo == Init /\ [][NextGoTo]_vars

\* a rebuild in flight settles
Rebuild == \E b \in builds, ok \in BOOLEAN : BuildDone(b, ok)

\* book b1 has just become Ready in a reader mounted on it, load being its
\* initEpub run: the state after Mount("b1") and its load steps up to the
\* first display
ReadyReader(load) ==
    /\ now = SecondMs
    /\ settings = defaultReaderSettings
    /\ dataTheme = defaultReaderSettings.theme
    /\ styled = [config |-> settings, applied |-> settings]
    /\ books = [b \in BookIds |-> NewBook(IF b = "b1" THEN "f1" ELSE "f2")]
    /\ bookmarks = <<>>
    /\ collections = <<>>
    /\ lastOp = NoOp
    /\ readerStore = [initialState EXCEPT !.sessionStartTime = SecondMs]
    /\ route = "b1"
    /\ rendererUp = TRUE
    /\ inst = 1
    /\ epubRef = 1
    /\ renditionRef = 1
    /\ loads = <<load>>
    /\ due = [b \in BookIds |-> 0]
    /\ sessionBegan = SecondMs
    /\ sessionBook = "b1"
    /\ cleanups = 0
    /\ staleWrites = {}
    /\ timers = {}
    /\ layoutTimeout = NullNum
    /\ burst = [c \in Concerns |-> NoBurst]
    /\ unbuilt = FALSE
    /\ toast = Null
    /\ hideTimeout = SecondMs + HideDelay
    /\ lastInput = NullNum

\* the same with no highlight in the library and no highlight subscriber
ReadyNowWith(load) ==
    /\ ReadyReader(load)
    /\ highlights = <<>>
    /\ nextId = 1
    /\ overlay = NoOverlay

ReadyNow ==
    ReadyNowWith([NewLoad("b1", 1) EXCEPT !.pc = "generate", !.ready = TRUE])

InitBuilds ==
    /\ ReadyNow
    /\ builds = {}

\* the labels of the entries, by position: top level, and below entry k
TopLabel == [k \in 1..(MaxToc + 1) |->
               IF k = 1 THEN "ch1" ELSE IF k = 2 THEN "ch2" ELSE "ch3"]
SubLabel == [k \in 1..(MaxToc + 1) |->
               IF k = 1 THEN "ch1.1" ELSE IF k = 2 THEN "ch2.1" ELSE "ch3.1"]

\* TocItem: the subitems an entry can have, and the entries at position k
SubItems(k) ==
    {<<>>} \cup {<<[label |-> SubLabel[k], href |-> h, subitems |-> <<>>]>> :
                   h \in Sections}
TopItems(k) ==
    {[label |-> TopLabel[k], href |-> h, subitems |-> sub] :
        h \in Sections, sub \in SubItems(k)}

\* the tables of contents of at most n top-level entries
RECURSIVE TocsUpTo(_)
TocsUpTo(n) ==
    IF n = 0 THEN {<<>>}
    ELSE TocsUpTo(n - 1) \cup
         {Append(t, e) : t \in {u \in TocsUpTo(n - 1) : Len(u) = n - 1},
                         e \in TopItems(n)}

Tocs == TocsUpTo(MaxToc)

\* book b1 is Ready, and its navigation is any of the tables
InitToc ==
    /\ builds = Unfollowed
    /\ \E t \in Tocs :
          ReadyNowWith([NewLoad("b1", 1) EXCEPT
                           !.pc = "generate", !.ready = TRUE, !.nav = t])

\* relocated events of a Ready reader, and the end of its initial build
NextToc ==
    \/ \E i \in 1..Len(loads), cfi \in Locs : Relocated(i, cfi)
    \/ \E i \in 1..Len(loads), ok \in BOOLEAN : GenerateDone(i, ok)

SpecToc == InitToc /\ [][NextToc]_vars

\* the highlights the library holds when the book is opened
StoredHighlights ==
    {<<>>} \cup
    {<<[id |-> 1, bookId |-> b, startLocation |-> l, color |-> c]>> :
        b \in BookIds, l \in Locs, c \in Colors}

\* book b1 is Ready in the EpubRenderer with annotations: its subscriber has
\* the snapshot of the mount, and applyExistingHighlights has run
InitOverlay ==
    /\ builds = Unfollowed
    /\ ReadyReader([NewLoad("b1", 1) EXCEPT !.pc = "generate", !.ready = TRUE])
    /\ highlights \in StoredHighlights
    /\ nextId = Len(highlights) + 1
    /\ overlay = [subscribed |-> TRUE,
                  previous |-> OfBook(highlights, "b1"),
                  marks |-> ApplyExistingHighlights(NoMarks,
                                                    OfBook(highlights, "b1")),
                  selection |-> NoSelection]

\* a Ready reader with annotations: the library store's highlight calls and
\* the selection popup
NextOverlay ==
    \/ \E l \in Locs : AddHighlight("b1", l, "yellow")
    \/ \E id \in 1..MaxIds, u \in HighlightUpdates : UpdateHighlight(id, u)
    \/ \E id \in 1..MaxIds : RemoveHighlight(id)
    \/ \E b \in BookIds : ClearAllHighlights(b)
    \/ \E l \in Locs : Selected(l)
    \/ \E c \in Colors : HandleHighlight(c)
    \/ HandleRemoveHighlight

SpecOverlay == InitOverlay /\ [][NextOverlay]_vars

\* the same reader with the rendition displaying its content again
NextRedisplay ==
    \/ \E l \in Locs : AddHighlight("b1", l, "yellow")
    \/ \E id \in 1..MaxIds : RemoveHighlight(id)
    \/ \E lost \in SUBSET Locs : Rendered(lost)

SpecRedisplay == InitOverlay /\ [][NextRedisplay]_vars

InitChrome ==
    /\ ReadyNow
    /\ builds = Unfollowed

\* an open reader: the pointer, clicks, panel keys, page turns and their
\* relocated events, the hide timer and the clock
NextChrome ==
    \/ MouseMove
    \/ ReaderClick
    \/ \E p \in Panels : TogglePanel(p)
    \/ Escape
    \/ PageTurn
    \/ \E i \in 1..Len(loads), cfi \in Locs : Relocated(i, cfi)
    \/ HideFire
    \/ Wait

SpecChrome == InitChrome /\ [][NextChrome]_vars

\* a Ready reader with its initial build, resize events, setting changes,
\* timers, the rebuilds they start and relocation events, until it is
\* unmounted
NextBuilds ==
    \/ \E i \in 1..Len(loads), ok \in BOOLEAN : GenerateDone(i, ok)
    \/ \E i \in 1..Len(loads) : Resized(i)
    \/ LayoutSettingChange
    \/ \E t \in timers : TimerFire(t)
    \/ Rebuild
    \/ \E i \in 1..Len(loads), cfi \in Locs : Relocated(i, cfi)
    \/ Unmount

SpecBuilds == InitBuilds /\ [][NextBuilds]_vars

\* the same, with relocations that reach the end of the book
NextPages ==
    \/ \E i \in 1..Len(loads), ok \in BOOLEAN : GenerateDone(i, ok)
    \/ \E i \in 1..Len(loads) : Resized(i)
    \/ LayoutSettingChange
    \/ \E t \in timers : TimerFire(t)
    \/ Rebuild
    \/ \E i \in 1..Len(loads), cfi \in Locs \cup {EndLoc} : Relocated(i, cfi)
    \/ Unmount

SpecPages == InitBuilds /\ [][NextPages]_vars

InitStyle ==
    /\ ReadyNow
    /\ builds = Unfollowed

\* a Ready reader under the settings store's calls, the effects that follow
\* a change of the settings, content-rendered events and relocations
NextStyle ==
    \/ \E t \in Themes : SetTheme(t)
    \/ \E a \in TextAligns : SetTextAlign(a)
    \/ \E u \in SettingsUpdates : UpdateReaderSettings(u)
    \/ ResetToDefaults
    \/ AppThemeEffect
    \/ StyleEffect
    \/ \E i \in 1..Len(loads) : ContentRendered(i)
    \/ \E i \in 1..Len(loads), cfi \in Locs : Relocated(i, cfi)

SpecStyle == InitStyle /\ [][NextStyle]_vars

\* the reader with resize events, setting changes and timers
NextDebounce ==
    \/ Lifecycle
    \/ LoadStep
    \/ \E i \in 1..Len(loads) : Resized(i)
    \/ LayoutSettingChange
    \/ \E t \in timers : TimerFire(t)

SpecDebounce == Init /\ [][NextDebounce]_vars

\* the reader with layout-setting changes; a promise that can settle does,
\* and a pending timer fires
NextLayout ==
    \/ Lifecycle
    \/ LoadStep
    \/ LayoutSettingChange
    \/ \E t \in timers : TimerFire(t)

SpecLayout ==
    /\ Init
    /\ [][NextLayout]_vars
    /\ WF_vars(LoadStep)
    /\ WF_vars(\E t \in timers : TimerFire(t))

\* the reader with the earlier EpubRenderer
NextLegacy ==
    \/ \E b \in BookIds : Mount(b)
    \/ LegacyUnmount
    \/ \E b \in BookIds : LegacySwitch(b)
    \/ \E i \in 1..Len(loads), ok \in BOOLEAN : LegacyReadDone(i, ok)
    \/ \E i \in 1..Len(loads), ok \in BOOLEAN : LegacyReadyDone(i, ok)
    \/ \E i \in 1..Len(loads), ok \in BOOLEAN : LegacyTocDone(i, ok)
    \/ \E i \in 1..Len(loads), ok \in BOOLEAN : LegacyGenerateDone(i, ok)
    \/ \E i \in 1..Len(loads), ok \in BOOLEAN : LegacyDisplayDone(i, ok)

SpecLegacy == Init /\ [][NextLegacy]_vars

\* ================================================================== claims

CleanupStep == route # Null /\ route' # route

\* C1: every session's whole seconds are credited exactly once, to the book
\* it was read on: each book's readingTime equals what its ended sessions
\* owe it, and a session clock runs only for the mounted, displayed book.
C1_SessionCreditedOnce ==
    /\ \A b \in BookIds : books[b].readingTime = due[b]
    /\ sessionBegan # NullNum =>
          /\ route # Null
          /\ route = sessionBook
          /\ readerStore.sessionStartTime = sessionBegan
          /\ rendererUp
          /\ loads[Len(loads)].ready
    /\ sessionBegan = NullNum => readerStore.sessionStartTime = NullNum

\* C2: a session started at t and ended by the cleanup at t + N whole
\* seconds adds exactly N to the book's readingTime and leaves
\* sessionStartTime null.
C2_ExactSeconds ==
    [][(/\ CleanupStep
        /\ sessionBegan # NullNum
        /\ (now - sessionBegan) % SecondMs = 0)
       => /\ books'[route].readingTime
               = books[route].readingTime + (now - sessionBegan) \div SecondMs
          /\ readerStore'.sessionStartTime = NullNum]_vars

\* C3: a session-end cleanup that finds no session in progress gets 0 from
\* endSession and changes no book.
C3_EndSessionIdempotent ==
    [][(CleanupStep /\ readerStore.sessionStartTime = NullNum)
       => /\ EndSession(readerStore.sessionStartTime, now).duration = 0
          /\ books' = books]_vars

\* two cleanups in a row, the first of which credited a session
C3_Witness ==
    /\ cleanups = 2
    /\ \E b \in BookIds : books[b].readingTime > 0

\* C4: a load resumed after its effect was cleaned up writes nothing into
\* shared state.
C4_StaleLoadWritesNothing == staleWrites = {}

\* C5: a relocated event handled while the index is pending never replaces
\* a non-zero stored progress by 0.
C5_ZeroIsUnknown ==
    [][(/\ \E i \in 1..Len(loads), cfi \in Locs : Relocated(i, cfi)
        /\ epubRef # NullNum
        /\ ~loads[epubRef].built
        /\ books[route].progress # 0)
       => books'[route].progress # 0]_vars

SameStart(h, g) == h.bookId = g.bookId /\ h.startLocation = g.startLocation

\* C6: no two highlights of a book share a start location.
C6_OneHighlightPerStart ==
    \A i, j \in 1..Len(highlights) :
        i # j => ~SameStart(highlights[i], highlights[j])

\* C7: right after addHighlight there is exactly one highlight at that start
\* location of that book, and it has the colour of the call.
C7_SecondAddReplaces ==
    lastOp.op = "addHighlight" =>
        LET at == {i \in 1..Len(highlights) : SameStart(highlights[i], lastOp)}
        IN  /\ Cardinality(at) = 1
            /\ \A i \in at : highlights[i].color = lastOp.color

\* the call replaced a highlight of another colour
C7_Witness ==
    /\ lastOp.op = "addHighlight"
    /\ \E c \in lastOp.replaced : c # lastOp.color

\* C8: right after updateReadingProgress the book's status is reading if it
\* was want-to-read, and what it was otherwise.
C8_StatusOnlyAdvances ==
    (lastOp.op = "updateReadingProgress" /\ lastOp.id \in DOMAIN books) =>
        books[lastOp.id].status =
            IF lastOp.was = "want-to-read" THEN "reading" ELSE lastOp.was

\* a finished book received a progress update
C8_Witness ==
    /\ lastOp.op = "updateReadingProgress"
    /\ lastOp.id \in DOMAIN books
    /\ lastOp.was = "finished"

\* C9: a load becomes Ready (loading cleared, session clock started) only
\* after its first display has resolved, its Location Index build is started
\* only once it is Ready, and so Ready precedes the completion of the build.
C9_ReadyBeforeIndex ==
    \A i \in 1..Len(loads) :
        /\ loads[i].ready => loads[i].pc \in {"generate", "done"}
        /\ (loads[i].pc = "generate" \/ loads[i].indexDone) => loads[i].ready

\* C11: while the session stays open, a change of a layout-affecting setting
\* is eventually followed by the start of a Location Index build.
C11_LayoutChangeRebuilds ==
    (unbuilt /\ rendererUp) ~> (~unbuilt \/ ~rendererUp)

\* a change made while the book is displayed has been followed by a rebuild
C11_Witness ==
    /\ burst["layout"].triggers > 0
    /\ burst["layout"].rebuilds = 1
    /\ ~unbuilt
    /\ rendererUp
    /\ loads[Len(loads)].ready

\* the calls that target one book by id
BookCalls ==
    {"updateBook", "updateReadingProgress", "updateReadingTime",
     "setBookStatus"}

\* the fields of a book record
BookFields == DOMAIN NewBook("f1")

\* this step is the call op, and bs is the books it leaves
Calls(op, bs) == lastOp'.op = op /\ books' = bs

\* this step leaves every field of book id outside fs as it was
WritesOnly(id, fs) ==
    \A f \in BookFields \ fs : books'[id][f] = books[id][f]

\* C12: each book-record call writes only its own fields of the target book
\* and writes them with its arguments: updateBook the fields of its patch,
\* updateReadingProgress currentLocation, progress, lastOpened and status,
\* updateReadingTime readingTime (the old value plus the seconds),
\* setBookStatus status.
C12_WritesOwnFields ==
    [][\A id \in {b \in DOMAIN books :
                    lastOp'.op \in BookCalls /\ b = lastOp'.id} :
        /\ \A u \in BookUpdates : Calls("updateBook", updateBook(books, id, u)) =>
              /\ WritesOnly(id, DOMAIN u)
              /\ \A f \in DOMAIN u : books'[id][f] = u[f]
        /\ \A l \in Locs, p \in Progresses :
              Calls("updateReadingProgress",
                    updateReadingProgress(books, id, l, p)) =>
              /\ WritesOnly(id, {"currentLocation", "progress", "lastOpened",
                                 "status"})
              /\ books'[id].currentLocation = l
              /\ books'[id].progress = p
        /\ \A n \in 1..MaxReadingTime :
              Calls("updateReadingTime", updateReadingTime(books, id, n)) =>
              /\ WritesOnly(id, {"readingTime"})
              /\ books'[id].readingTime = books[id].readingTime + n
        /\ \A st \in Statuses :
              Calls("setBookStatus", setBookStatus(books, id, st)) =>
              /\ WritesOnly(id, {"status"})
              /\ books'[id].status = st]_vars

\* all four calls have written to one book, and each one's value stands
C12_Witness ==
    \E id \in DOMAIN books :
        /\ books[id].title = "t1"
        /\ books[id].currentLocation = "cfiA"
        /\ books[id].lastOpened = now
        /\ books[id].readingTime = MaxReadingTime
        /\ books[id].status = "want-to-read"

\* C13: a book-targeted call leaves every book with another id as it was,
\* adds and removes no book, and with an id that matches no book leaves all
\* books as they were.
C13_OtherBooksUntouched ==
    [][lastOp'.op \in BookCalls =>
        /\ DOMAIN books' = DOMAIN books
        /\ \A b \in DOMAIN books \ {lastOp'.id} : books'[b] = books[b]]_vars

\* a call has just been made with the id of a removed book, next to a book
\* that earlier calls have changed
C13_Witness ==
    /\ lastOp.op \in BookCalls
    /\ lastOp.id \notin DOMAIN books
    /\ \E b \in DOMAIN books : books[b].status = "finished"

\* the entries of arr that belong to another book than id
OfOthers(arr, id) == LET other(x) == x.bookId # id IN SelectSeq(arr, other)

\* C14: right after removeBook(id) no bookmark and no highlight has that
\* bookId and no collection lists the id, and the bookmarks, the highlights
\* and the memberships of every other book are as they were.
C14_RemoveBookCascades ==
    [][lastOp'.op = "removeBook" =>
        LET id == lastOp'.id IN
        /\ \A i \in 1..Len(bookmarks') : bookmarks'[i].bookId # id
        /\ \A i \in 1..Len(highlights') : highlights'[i].bookId # id
        /\ \A i \in 1..Len(collections') : ~Includes(collections'[i].bookIds, id)
        /\ bookmarks' = OfOthers(bookmarks, id)
        /\ highlights' = OfOthers(highlights, id)
        /\ Len(collections') = Len(collections)
        /\ \A i \in 1..Len(collections) :
              /\ collections'[i].id = collections[i].id
              /\ Without(collections'[i].bookIds, id)
                    = Without(collections[i].bookIds, id)]_vars

\* a book that had a bookmark, a highlight and a membership was removed next
\* to another book that keeps its own
C14_Witness ==
    /\ lastOp.op = "removeBook"
    /\ Len(bookmarks) = 1
    /\ Len(highlights) = 1
    /\ Len(bookmarks) + Len(highlights) < nextId - 1
    /\ \E i \in 1..Len(collections) : Len(collections[i].bookIds) = 1
    /\ \E i \in 1..Len(collections) : collections[i].bookIds = <<>>

\* load i is live and this step is the failure of one of its awaits
FailStep(i) ==
    /\ loads[i].active
    /\ \/ ReadDone(i, FALSE)
       \/ ReadyDone(i, FALSE)
       \/ TocDone(i, "throws")
       \/ TocDone(i, "rejects")
       \/ DisplayDone(i, FALSE)

\* after this step no session clock runs, and the step started no load and
\* made no load Ready
NotReadied ==
    /\ readerStore'.sessionStartTime = NullNum
    /\ Len(loads') = Len(loads)
    /\ \A j \in 1..Len(loads) : loads'[j].ready => loads[j].ready

\* C15: when an await of a live load fails (file read, epub.ready, the table
\* of contents, the first display), the error is set, loading is cleared,
\* no load becomes Ready, no session clock runs and no load is started;
\* and while the error stands, only a mount, unmount or book switch changes
\* that.
C15_FailedLoadNeverReady ==
    [][/\ \A i \in 1..Len(loads) : FailStep(i) =>
             /\ readerStore'.error # Null
             /\ ~readerStore'.isLoading
             /\ NotReadied
       /\ (readerStore.error # Null /\ route' = route) =>
             /\ readerStore'.error # Null
             /\ ~readerStore'.isLoading
             /\ NotReadied]_vars

\* the load of the second book of a reader has failed
C15_Witness ==
    /\ route # Null
    /\ Len(loads) = MaxLoads
    /\ readerStore.error # Null
    /\ ~readerStore.isLoading
    /\ readerStore.sessionStartTime = NullNum

\* this step is a goToLocation or goToPercentage call whose display fails
GoToRejected ==
    \/ GoToLocation(BadTarget)
    \/ \E p \in Percentages : GoToPercentage(p, FALSE)

\* C16: a goToLocation or goToPercentage call whose target cannot be
\* displayed shows an error toast and changes nothing else: the reader
\* store (Address, progress, error, session clock), the Book records, the
\* loads and the epub and rendition refs are as they were.
C16_FailedGoToKeepsSession ==
    [][GoToRejected =>
        /\ toast' = "navigation failed"
        /\ readerStore' = readerStore
        /\ books' = books
        /\ loads' = loads
        /\ rendererUp'
        /\ epubRef' = epubRef
        /\ renditionRef' = renditionRef]_vars

\* a navigation has failed in a Ready session that has a position
C16_Witness ==
    /\ toast = "navigation failed"
    /\ rendererUp
    /\ readerStore.sessionStartTime # NullNum
    /\ readerStore.currentLocation = "cfiB"
    /\ readerStore.error = Null
    /\ books[route].currentLocation = "cfiB"

\* this step is the rejection of an index build: the initial generate(2048),
\* or a rebuild that a resize or a layout-setting timer started
BuildThrows ==
    \/ \E i \in 1..Len(loads) : GenerateDone(i, FALSE)
    \/ \E b \in builds : BuildDone(b, FALSE)

\* C17: when an index build rejects, the reader store is as it was (no
\* error, the same totalLocations, the session clock running), no index
\* changes, and a live Ready load stays live, Ready and undestroyed, so its
\* relocated events are still handled.
C17_FailedBuildKeepsSession ==
    [][BuildThrows =>
        /\ readerStore' = readerStore
        /\ toast' = toast
        /\ rendererUp' = rendererUp
        /\ epubRef' = epubRef
        /\ renditionRef' = renditionRef
        /\ \A j \in 1..Len(loads) : loads[j].active =>
              /\ loads'[j].built = loads[j].built
              /\ loads'[j].active
              /\ loads'[j].ready = loads[j].ready
              /\ loads'[j].destroyed = loads[j].destroyed]_vars

\* in a Ready session the initial build, a resize rebuild and a settings
\* rebuild have all rejected, and a relocation has been handled
C17_Witness ==
    /\ rendererUp
    /\ builds = {}
    /\ burst["resize"].rebuilds = 1
    /\ burst["layout"].rebuilds = 1
    /\ \E i \in 1..Len(loads) :
          /\ loads[i].active
          /\ loads[i].ready
          /\ loads[i].indexDone
          /\ ~loads[i].built
    /\ readerStore.sessionStartTime # NullNum
    /\ readerStore.error = Null
    /\ readerStore.currentLocation = "cfiB"

\* C18: while the contents, settings or bookmarks panel is open no hide timer
\* is pending, and no step taken with a panel open is the hide timer firing.
C18_PanelSuspendsHide ==
    /\ [](PanelOpen(readerStore) => hideTimeout = NullNum)
    /\ [][PanelOpen(readerStore) => ~HideFire]_vars

\* a panel has been open for longer than the hide delay and the chrome is
\* still shown
C18_Witness ==
    /\ route # Null
    /\ PanelOpen(readerStore)
    /\ readerStore.isUIVisible
    /\ hideTimeout = NullNum
    /\ lastInput # NullNum
    /\ now - lastInput > HideDelay

\* C19: the hide timer never hides the chrome less than the hide delay after
\* the most recent pointer move, click, page turn or panel key.
C19_HideWaitsForInput ==
    [][HideFire => (lastInput = NullNum \/ now - lastInput >= HideDelay)]_vars

\* the entries of a table that target section sec, each with its depth
TocMatches(nav, sec) ==
    {[label |-> nav[k].label, depth |-> 1] :
        k \in {j \in 1..Len(nav) : nav[j].href = sec}}
    \cup
    {[label |-> nav[k].subitems[1].label, depth |-> 2] :
        k \in {j \in 1..Len(nav) :
                  /\ nav[j].subitems # <<>>
                  /\ nav[j].subitems[1].href = sec}}

\* the labels of the deepest of them
DeepestLabels(nav, sec) ==
    {e.label : e \in {f \in TocMatches(nav, sec) :
                        \A g \in TocMatches(nav, sec) : g.depth <= f.depth}}

\* C20: after a handled relocated event at an address whose section some
\* entry of the table of contents targets, the current chapter is the label
\* of a deepest such entry, at whatever level it is.
C20_DeepestChapter ==
    [][\A cfi \in Locs :
          /\ epubRef # NullNum
          /\ loads[epubRef].active
          /\ Relocated(epubRef, cfi)
          /\ TocMatches(loads[epubRef].nav, CfiBase(cfi)) # {}
          => readerStore'.currentChapter
                \in DeepestLabels(loads[epubRef].nav, CfiBase(cfi))]_vars

\* the colours of the persisted highlights of the open book that start at l
ColoursAt(l) ==
    {highlights[i].color : i \in {j \in 1..Len(highlights) :
        highlights[j].bookId = route /\ highlights[j].startLocation = l}}

\* C21: with a rendition, the addresses that carry a decoration are the
\* start locations of the open book's persisted highlights, each in the
\* colour of a highlight that starts there.
C21_DecorationsMatchHighlights ==
    (overlay.subscribed /\ renditionRef # NullNum) =>
        \A l \in Locs :
            IF ColoursAt(l) = {} THEN overlay.marks[l] = Null
            ELSE overlay.marks[l] \in ColoursAt(l)

\* C22: after a rendered event every persisted highlight of the open book has
\* its decoration, in its colour.
C22_RedisplayKeepsDecorations ==
    [][(\E lost \in SUBSET Locs : Rendered(lost)) =>
        \A l \in Locs : ColoursAt(l) # {} => overlay'.marks[l] \in ColoursAt(l)]_vars

\* the ids of a list of bookmarks, in order
IdsOf(bms) == [i \in 1..Len(bms) |-> bms[i].id]

Count(arr, x) == Cardinality({i \in 1..Len(arr) : arr[i] = x})

\* C24: after addBookToCollection(b, c) for a book and a collection that
\* exist, c is exactly once in b's collectionIds and b exactly once in c's
\* bookIds, however often it has been called before.
C24_AddToCollectionIdempotent ==
    [][(/\ lastOp'.op = "addBookToCollection"
        /\ lastOp'.bookId \in DOMAIN books) =>
          \A i \in 1..Len(collections) :
             collections[i].id = lastOp'.collectionId =>
               /\ Count(books'[lastOp'.bookId].collectionIds,
                        lastOp'.collectionId) = 1
               /\ Count(collections'[i].bookIds, lastOp'.bookId) = 1]_vars

\* the call has just been repeated for a book that was in the collection
C24_Witness ==
    /\ lastOp.op = "addBookToCollection"
    /\ lastOp.was
    /\ lastOp.bookId \in DOMAIN books
    /\ Count(books[lastOp.bookId].collectionIds, lastOp.collectionId) = 1
    /\ \E i \in 1..Len(collections) :
          /\ collections[i].id = lastOp.collectionId
          /\ Count(collections[i].bookIds, lastOp.bookId) = 1

\* the membership relation as the books hold it, and as the collections do
PairsOfBooks ==
    UNION {{<<b, books[b].collectionIds[i]>> :
              i \in 1..Len(books[b].collectionIds)} :
           b \in DOMAIN books}
PairsOfCollections ==
    UNION {{<<collections[i].bookIds[j], collections[i].id>> :
              j \in 1..Len(collections[i].bookIds)} :
           i \in 1..Len(collections)}

\* C29: the pairs (b, c) with c in b's collectionIds are the pairs with b in
\* c's bookIds.
C29_MembershipAgrees == PairsOfBooks = PairsOfCollections

\* the index builds of the mounted reader's book that have started and not
\* settled: the initial generate(2048) of its load, and the rebuilds that
\* resize and layout-setting timers have started
InFlight ==
    Cardinality({i \in 1..Len(loads) : loads[i].active
                                        /\ loads[i].pc = "generate"})
      + Cardinality({b \in builds : b.epub = epubRef})

\* C30: in a mounted reader at most one index build is in flight.
C30_OneBuildInFlight == rendererUp => InFlight <= 1

\* C26: when the reader store's totalPages is positive, its currentPage is
\* between 1 and totalPages.
C26_PageWithinTotal ==
    readerStore.totalPages > 0 =>
        readerStore.currentPage \in 1..readerStore.totalPages

\* C28: the percentage the bottom bar shows is the reader store's progress
\* clamped to 0..100.
C28_BarShowsStoredProgress ==
    roundedProgress(readerStore) = Least(100, Most(0, readerStore.progress))

\* this step is a content-rendered event of the live rendition, taken after
\* a change of the settings since the load has been applied to the surface
RenderedAfterChange ==
    /\ \E i \in 1..Len(loads) : ContentRendered(i)
    /\ styled.applied = settings
    /\ styled.config = settings
    /\ loads[renditionRef].styles # settings

\* C25: a content-rendered event that follows an applied change of the
\* settings leaves the content styled from the current settings.
C25_RenderedUsesCurrentSettings ==
    [][RenderedAfterChange => styled'.config = settings']_vars

\* C27: the data-theme attribute of the document is settings.reader.theme.
C27_AttributeFollowsTheme == dataTheme = settings.theme

\* C10: each debounced concern (resize reflow, layout-setting rebuild) has at
\* most one timer pending at any time, a trigger that arrives while one is
\* pending replaces it, and so the triggers of one burst start one index
\* rebuild: never a second, and never none when the timer fires with the load
\* it was set under still live.
C10_OneTimerPerConcern ==
    \A c \in Concerns :
        /\ Cardinality(Pending(c)) <= 1
        /\ burst[c].rebuilds <= 1
        /\ ~burst[c].lost

\* on each concern a burst of two triggers has ended in one rebuild
C10_Witness ==
    \A c \in Concerns :
        burst[c].triggers = 2 /\ burst[c].rebuilds = 1 /\ Pending(c) = {}

====
